---- MODULE Spec2Model ----
(***************************************************************************)
(* A model of go-dleq: the cross-group discrete-logarithm-equality prover  *)
(* and verifier (dleq.go, verify.go, serde.go) over the secp256k1 and     *)
(* ed25519 adapters.                                                       *)
(*                                                                         *)
(* Witness handling (checkWitnessSize, generateRandomBits, getBit) is      *)
(* modelled on the code's own geometry: 32 bytes of 8 bits.                *)
(*                                                                         *)
(* The two groups are cyclic groups of small prime order written by        *)
(* discrete logarithm; encodings, hashes and signatures are scaled to      *)
(* them and keep the code's structure (lengths, prefixes, rejections).     *)
(*                                                                         *)
(* Six specifications share the variables:                                 *)
(*   SpecWitness  checkWitnessSize, generateRandomBits and ScalarFromBytes *)
(*                on 32 bytes;                                             *)
(*   SpecCommit   generateCommitments and verifyCommitmentsSum;            *)
(*   SpecHash     HashToScalar of secp256k1 on two-byte scalars;           *)
(*   SpecRing     generateRingSignature on chosen commitments;             *)
(*   SpecSign     Sign and Verify of ed25519 on signatures of any length;  *)
(*   Spec         NewProof, Verify, Serialize, Deserialize, on proofs as   *)
(*                made, altered in memory or on the wire, and under a      *)
(*                failing random source.                                   *)
(***************************************************************************)
EXTENDS Integers, Sequences, FiniteSets, TLC

VARIABLES
    pc,        \* position of the caller: which operation ran last
    x,         \* the witness, [32]byte little-endian, as a function 0..31 -> 0..255
    bits,      \* the bits argument of the witness helpers
    sizeRes,   \* what checkWitnessSize returned: "none", "nil" or "err"
    curve,     \* the curve generateCommitments is called on: "A" or "B"
    commitments, \* the []commitment generateCommitments returned
    commitRes, \* how generateCommitments ended: "none", "ok" or a panic
    sumRes,    \* what verifyCommitmentsSum returned: "none", "nil", "err" or a panic
    proof,     \* the *Proof NewProof returned (the zero Proof when it returned none)
    proofRes,  \* what NewProof returned: "none", "nil", an error or a panic
    verifyRes, \* what proof.Verify returned: "none", "nil", an error or a panic
    ser,       \* the bytes handed to Deserialize
    origin,    \* who wrote ser: "none", "Serialize", or how the bytes were made
    deser,     \* the receiver of Deserialize
    deserRes,  \* what Deserialize returned: "none", "nil" or an error
    deserVerifyRes, \* what deser.Verify returned
    rngFailAt, \* the read of the random source that fails (0: none does)
    tampered,  \* a proof altered in memory after NewProof made it
    tamperKind, \* the alterations made to it, in the order made
    tamperRes, \* what tampered.Verify returned
    tamperRes2, \* what a second tampered.Verify returned
    hashIn,    \* the input of HashToScalar
    hashRes,   \* how HashToScalar ended ("none", "ok", "panic") and the scalar
    ringBit,   \* the byte x of generateRingSignature
    ringCmA,   \* its commitment on curve A
    ringCmB,   \* its commitment on curve B
    ringOut,   \* what generateRingSignature returned: [res, sig]
    fromBytes, \* how ScalarFromBytes ended on x and the scalars on both curves
    signSk,    \* the secret scalar handed to Sign
    signMsg,   \* the message point handed to Sign and Verify
    signSig,   \* the signature bytes handed to Verify
    signRes,   \* what Verify returned: "none", "true", "false" or "panic"
    inBuf      \* the caller's buffer after Deserialize read it

protoVars == <<proof, proofRes, verifyRes, ser, origin, deser, deserRes, deserVerifyRes>>

helperVars == <<x, bits, sizeRes, curve, commitments, commitRes, sumRes>>

tamperVars == <<tampered, tamperKind, tamperRes, tamperRes2>>

signVars == <<signSk, signMsg, signSig, signRes>>

unitVars == <<hashIn, hashRes, ringBit, ringCmA, ringCmB, ringOut, fromBytes,
              signVars, inBuf>>

vars == <<pc, x, bits, sizeRes, curve, commitments, commitRes, sumRes, proof,
          proofRes, verifyRes, ser, origin, deser, deserRes, deserVerifyRes,
          rngFailAt, tampered, tamperKind, tamperRes, tamperRes2,
          hashIn, hashRes, ringBit, ringCmA, ringCmB, ringOut,
          fromBytes, signSk, signMsg, signSig, signRes, inBuf>>

(***************************************************************************)
(* Bytes                                                                   *)
(***************************************************************************)
WitnessLen == 32
ByteBits == 8
WitnessBits == 256

Pow2 == <<1, 2, 4, 8, 16, 32, 64, 128, 256>>

\* bit i (0..7) of the byte v
BitOf(v, i) == (v \div Pow2[i + 1]) % 2

\* Go's & on two bytes
AndByte(a, b) ==
    LET w[i \in 0..ByteBits] ==
            IF i = 0 THEN 0
            ELSE w[i - 1] + BitOf(a, i - 1) * BitOf(b, i - 1) * Pow2[i]
    IN  w[ByteBits]

\* Go's ^ on two bytes
XorByte(a, b) ==
    LET w[i \in 0..ByteBits] ==
            IF i = 0 THEN 0
            ELSE w[i - 1] + ((BitOf(a, i - 1) + BitOf(b, i - 1)) % 2) * Pow2[i]
    IN  w[ByteBits]

\* Go's byte(v) << k for a shift count k >= 0: bits shifted past bit 7 are lost
ShlByte(v, k) == IF k >= ByteBits THEN 0 ELSE (v * Pow2[k + 1]) % 256

\* Go's byte(v) >> k for a shift count k >= 0
ShrByte(v, k) == IF k >= ByteBits THEN 0 ELSE v \div Pow2[k + 1]

ZeroBytes == [i \in 0..(WitnessLen - 1) |-> 0]

(***************************************************************************)
(* Witness helpers (dleq.go)                                               *)
(***************************************************************************)
min(a, b) == IF a < b THEN a ELSE b

\* getBit returns the bit at the given index (in little endian)
getBit(xs, i) == BitOf(xs[i \div ByteBits], i % ByteBits)

\* a slip: the loop over the tail starts at the masked byte itself
checkWitnessSizeLoopFromSame(xs, nbits) ==
    \E i \in (nbits \div ByteBits)..(WitnessLen - 1) : xs[i] # 0

\* for _, b := range x[(bits/8)+1:] { if b != 0 ... }
checkWitnessSizeLoopFromNext(xs, nbits) ==
    \E i \in ((nbits \div ByteBits) + 1)..(WitnessLen - 1) : xs[i] # 0

checkWitnessSize(xs, nbits) ==
    LET cleared == WitnessBits - nbits
        bitmask == ShlByte(255, ByteBits - (cleared % ByteBits))
    IN  IF AndByte(xs[nbits \div ByteBits], bitmask) # 0 THEN "err"
        ELSE IF cleared \div ByteBits = 0 THEN "nil"
        ELSE IF checkWitnessSizeLoopFromNext(xs, nbits) THEN "err"
        ELSE "nil"

\* generateRandomBits on the 32 bytes rnd that rand.Read produced
generateRandomBits(nbits, rnd) ==
    LET toClear == WitnessBits - nbits
    IN  [rnd EXCEPT ![WitnessLen - 1] = AndByte(@, ShrByte(255, toClear))]

(***************************************************************************)
(* The two groups (secp256k1/curve.go, ed25519/curve.go).                  *)
(*                                                                         *)
(* Each curve is a cyclic group of prime order; a point is modelled by its *)
(* discrete logarithm to the base point G, so that BasePoint is 1, the     *)
(* point at infinity is 0, point addition is addition modulo the order and *)
(* scalar multiplication is multiplication modulo the order.  The orders   *)
(* and bit sizes are scaled down and keep the relations of the code's:     *)
(*   curve A (secp256k1): 2^BitSizeA < OrderA < 2^(BitSizeA+1)   (255)     *)
(*   curve B (ed25519):   2^BitSizeB < OrderB < 2^(BitSizeB+1)   (252)     *)
(*   BitSizeB < BitSizeA, and OrderA # OrderB.                             *)
(***************************************************************************)
OrderA == 13
OrderB == 5
BitSizeA == 3
BitSizeB == 2
\* the alternate base points H = AltBase * G; nobody is meant to know AltBase
AltBaseA == 6
AltBaseB == 2

Curves == {"A", "B"}

Order(c) == IF c = "A" THEN OrderA ELSE OrderB
BitSize(c) == IF c = "A" THEN BitSizeA ELSE BitSizeB
BasePoint(c) == 1
AltBasePoint(c) == IF c = "A" THEN AltBaseA ELSE AltBaseB
Scalars(c) == 0..(Order(c) - 1)

\* Scalar methods
ScalarAdd(c, a, b) == (a + b) % Order(c)
ScalarNegate(c, a) == (Order(c) - a) % Order(c)
ScalarSub(c, a, b) == ScalarAdd(c, a, ScalarNegate(c, b))
ScalarMul(c, a, b) == (a * b) % Order(c)
ScalarEq(a, b) == a = b
ScalarIsZero(a) == a = 0
\* a slip: Inverse returns the scalar itself
ScalarInverseIdentity(c, a) == a

\* a^(order-2); the inverse of 0 is 0 in both libraries
ScalarInverse(c, a) ==
    LET pw[k \in 0..(Order(c) - 2)] ==
            IF k = 0 THEN 1 ELSE (pw[k - 1] * a) % Order(c)
    IN  pw[Order(c) - 2]

\* Curve methods
ScalarFromInt(c, v) == v % Order(c)
ScalarBaseMul(c, s) == (s * BasePoint(c)) % Order(c)
CurveScalarMul(c, s, P) == (s * P) % Order(c)

\* Point methods
PointCopy(P) == P
PointAdd(c, P, Q) == (P + Q) % Order(c)
PointSub(c, P, Q) == PointAdd(c, P, CurveScalarMul(c, Order(c) - 1, Q))
PointScalarMul(c, P, s) == CurveScalarMul(c, s, P)
PointEquals(P, Q) == P = Q
\* secp256k1 compares with the (0, 0) key, the point at infinity.  ed25519
\* compares with the decoding of 32 zero bytes, the point with y = 0: it has
\* order 4 and is no element of the prime-order group, so no point the
\* prover computes equals it.
PointIsZero(c, P) == IF c = "A" THEN P = 0 ELSE FALSE

\* the little-endian integer held by the 32 bytes xs, modulo m
LEValueMod(xs, m) ==
    LET h[i \in 0..WitnessLen] ==
            IF i = 0 THEN 0
            ELSE (h[i - 1] * 256 + xs[WitnessLen - i]) % m
    IN  h[WitnessLen]

(***************************************************************************)
(* Encodings.  The encoded lengths are scaled down with the orders: a      *)
(* scalar takes ScalarLen bytes (32 in the code), a curve-A point a format *)
(* byte and the X coordinate (33), a curve-B point the y coordinate with   *)
(* the sign of x in the top bit of the last byte (32).                     *)
(***************************************************************************)
ScalarLen == 1
PointLenA == 2
PointLenB == 1

\* absent Scalar / Point (a nil interface value)
NilScalar == -1
NilPoint == -1

HalfOrder(c) == (Order(c) - 1) \div 2

\* the coordinate P and -P share: X on curve A, y on curve B (0 for infinity)
Coord(c, P) == IF P > HalfOrder(c) THEN Order(c) - P ELSE P

Take(s, n) == SubSeq(s, 1, min(n, Len(s)))
Drop(s, n) == SubSeq(s, min(n, Len(s)) + 1, Len(s))

\* the big-endian integer held by the bytes bs
BEValue(bs) ==
    LET h[i \in 0..Len(bs)] == IF i = 0 THEN 0 ELSE h[i - 1] * 256 + bs[i]
    IN  h[Len(bs)]

\* the little-endian integer held by the bytes bs
LEValue(bs) ==
    LET h[i \in 0..Len(bs)] ==
            IF i = 0 THEN 0 ELSE h[i - 1] * 256 + bs[Len(bs) + 1 - i]
    IN  h[Len(bs)]

\* big.Int.Bytes: the big-endian bytes of n without leading zeros (none for 0)
RECURSIVE BigIntBytes(_)
BigIntBytes(n) == IF n = 0 THEN <<>> ELSE Append(BigIntBytes(n \div 256), n % 256)

\* ScalarImpl.Encode (canonical, ScalarLen bytes)
ScalarEncode(c, s) == <<s>>

\* secp256k1 PointImpl.Encode: SerializeCompressed of (X, Y); infinity is held
\* as (0, 0) and so encodes as the even format byte and X = 0
PointEncodeA(P) == <<IF P > HalfOrder("A") THEN 3 ELSE 2, Coord("A", P)>>

\* ed25519 PointImpl.Encode: y with the sign of x in the top bit; the
\* identity is (0, 1)
PointEncodeB(P) == <<(1 + Coord("B", P)) + (IF P > HalfOrder("B") THEN 128 ELSE 0)>>

PointEncode(c, P) == IF c = "A" THEN PointEncodeA(P) ELSE PointEncodeB(P)

\* secp256k1.ParsePubKey on a copy of the bytes: a compressed key has the
\* length PointLenA and format 2 or 3, and X must be the coordinate of a point
DecodeToPointA(in) ==
    IF Len(in) # PointLenA \/ in[1] \notin {2, 3}
            \/ in[2] \notin 1..HalfOrder("A")
    THEN [err |-> TRUE, val |-> NilPoint]
    ELSE [err |-> FALSE, val |-> IF in[1] = 2 THEN in[2] ELSE OrderA - in[2]]

\* edwards25519 Point.SetBytes: y must be the coordinate of a point; it
\* accepts the identity with the sign bit set
SetBytesB(in) ==
    IF Len(in) # PointLenB THEN [err |-> TRUE, val |-> NilPoint]
    ELSE
        LET y == in[1] % 128
            neg == in[1] >= 128
        IN  IF y \notin 1..(1 + HalfOrder("B")) THEN [err |-> TRUE, val |-> NilPoint]
            ELSE [err |-> FALSE,
                  val |-> IF neg THEN (OrderB - (y - 1)) % OrderB ELSE y - 1]

\* edwards25519 Scalar.SetCanonicalBytes
SetCanonicalBytesB(in) ==
    IF Len(in) # ScalarLen \/ LEValue(in) >= OrderB
    THEN [err |-> TRUE, val |-> NilScalar]
    ELSE [err |-> FALSE, val |-> LEValue(in)]

\* secp256k1 CurveImpl.DecodeToScalar: SetByteSlice reduces modulo the order
\* and its overflow flag is dropped
DecodeToScalarA(in) ==
    IF Len(in) # ScalarLen THEN [err |-> TRUE, val |-> NilScalar]
    ELSE [err |-> FALSE, val |-> BEValue(in) % OrderA]

\* ed25519 CurveImpl.DecodeToPoint: invalid point bytes are an error
DecodeToPointB(in) == SetBytesB(in)

\* ed25519 CurveImpl.DecodeToScalar: an invalid scalar is an error
DecodeToScalarB(in) == SetCanonicalBytesB(in)

DecodeToPoint(c, in) == IF c = "A" THEN DecodeToPointA(in) ELSE DecodeToPointB(in)
DecodeToScalar(c, in) == IF c = "A" THEN DecodeToScalarA(in) ELSE DecodeToScalarB(in)
CompressedPointSize(c) == IF c = "A" THEN PointLenA ELSE PointLenB

(***************************************************************************)
(* Hash functions.  The digests are scaled down to two bytes; each         *)
(* function mixes every input byte and its position into the digest.       *)
(***************************************************************************)
HashModulus == 65521

HashBytes(in, seed, mult) ==
    LET h[i \in 0..Len(in)] ==
            IF i = 0 THEN seed
            ELSE (h[i - 1] * mult + in[i] + 1) % HashModulus
    IN  <<h[Len(in)] \div 256, h[Len(in)] % 256>>

Sha3Sum512(in) == HashBytes(in, 17, 251)
Sha512Sum512(in) == HashBytes(in, 101, 239)
Sha256Sum256(in) == HashBytes(in, 59, 241)

\* secp256k1 CurveImpl.HashToScalar for a group of the given order whose
\* scalars take len bytes: -1 stands for the panic
\* "hash should not be reduced twice"
HashToScalarOn(in, order, len) ==
    LET h == Sha3Sum512(in)
        n == BEValue(h) % order
        nb == BigIntBytes(n)
        \* copy(reduced[:], n.Bytes())
        reduced == [i \in 1..len |-> IF i <= Len(nb) THEN nb[i] ELSE 0]
        v == BEValue(reduced)
    IN  IF v >= order THEN -1 ELSE v

\* secp256k1 CurveImpl.HashToScalar on curve A
HashToScalarA(in) == HashToScalarOn(in, OrderA, ScalarLen)

\* ed25519 CurveImpl.HashToScalar: SetUniformBytes reads the digest little-endian
HashToScalarB(in) == LEValue(Sha3Sum512(in)) % OrderB

\* hashToScalar(curve, cA, cB, lA, lB): the preimage is the same for both curves
hashToScalar(c, cA, cB, lA, lB) ==
    LET preimage == PointEncodeA(cA) \o PointEncodeB(cB)
                        \o PointEncodeA(lA) \o PointEncodeB(lB)
    IN  IF c = "A" THEN HashToScalarA(preimage) ELSE HashToScalarB(preimage)

\* a slip: the bytes are handed to SetBytes without reverse
ScalarFromBytesANotReversed(xs) ==
    LET h[i \in 0..WitnessLen] ==
            IF i = 0 THEN 0
            ELSE (h[i - 1] * 256 + xs[i - 1]) % OrderA
    IN  h[WitnessLen]

\* secp256k1 ScalarFromBytes: reverse, then SetBytes, which reduces modulo the order
ScalarFromBytesA(xs) == LEValueMod(xs, OrderA)

\* ed25519 ScalarFromBytes: SetCanonicalBytes panics on a value >= the order;
\* -1 stands for the panic
ScalarFromBytesB(xs) ==
    IF \E i \in 1..(WitnessLen - 1) : xs[i] # 0 THEN -1
    ELSE IF xs[0] >= OrderB THEN -1 ELSE xs[0]

(***************************************************************************)
(* Signatures                                                              *)
(***************************************************************************)
\* ecdsa hashToInt of the SHA-256 digest of the encoded message point
EcdsaDigest(msg) == BEValue(Sha256Sum256(PointEncodeA(msg))) % OrderA

\* secp256k1 CurveImpl.Sign with the nonce k that ecdsa.SignASN1 drew
\* (1 <= k < order): the signature is (r, s), one byte each here.  An empty
\* signature stands for a draw the library rejects (s = 0) and redraws.
SignA(sk, msg, k) ==
    LET r == Coord("A", ScalarBaseMul("A", k)) % OrderA
        sv == (ScalarInverse("A", k) * ((EcdsaDigest(msg) + r * sk) % OrderA)) % OrderA
    IN  IF r = 0 \/ sv = 0 THEN <<>> ELSE <<r, sv>>

\* secp256k1 CurveImpl.Verify: ecdsa.VerifyASN1
VerifyA(pubkey, msg, sig) ==
    IF Len(sig) # 2 THEN FALSE
    ELSE IF sig[1] \notin 1..(OrderA - 1) \/ sig[2] \notin 1..(OrderA - 1) THEN FALSE
    ELSE
        LET w == ScalarInverse("A", sig[2])
            u1 == (EcdsaDigest(msg) * w) % OrderA
            u2 == (sig[1] * w) % OrderA
            X == (u1 * BasePoint("A") + u2 * pubkey) % OrderA
        IN  X # 0 /\ Coord("A", X) % OrderA = sig[1]

\* a slip: the signature leaves out R
SignBScalarOnly(sk, msg) ==
    LET seed == ScalarEncode("B", sk)
        r == LEValue(Sha512Sum512(seed)) % OrderB
        R == ScalarBaseMul("B", r)
        A == ScalarBaseMul("B", sk)
        ch == LEValue(Sha512Sum512(
                  PointEncodeB(R) \o PointEncodeB(A) \o PointEncodeB(msg))) % OrderB
    IN  ScalarEncode("B", ScalarAdd("B", r, ScalarMul("B", ch, sk)))

\* ed25519 CurveImpl.Sign
SignB(sk, msg) ==
    LET seed == ScalarEncode("B", sk)
        r == LEValue(Sha512Sum512(seed)) % OrderB
        R == ScalarBaseMul("B", r)
        A == ScalarBaseMul("B", sk)
        ch == LEValue(Sha512Sum512(
                  PointEncodeB(R) \o PointEncodeB(A) \o PointEncodeB(msg))) % OrderB
        sigS == ScalarAdd("B", r, ScalarMul("B", ch, sk))
    IN  PointEncodeB(R) \o ScalarEncode("B", sigS)

\* copy(dst[:], src) into n zero bytes
CopyInto(n, src) == [i \in 1..n |-> IF i <= Len(src) THEN src[i] ELSE 0]

\* ed25519 CurveImpl.Verify: "panic" when sig[:32] is out of range
VerifyB(pubkey, msg, sig) ==
    IF Len(sig) < PointLenB THEN "panic"
    ELSE
        LET RBytes == CopyInto(PointLenB, Take(sig, PointLenB))
            sBytes == CopyInto(ScalarLen, Drop(sig, PointLenB))
            ch == LEValue(Sha512Sum512(
                      RBytes \o PointEncodeB(pubkey) \o PointEncodeB(msg))) % OrderB
            R == SetBytesB(RBytes)
            sv == SetCanonicalBytesB(sBytes)
            res == PointAdd("B", CurveScalarMul("B", ScalarNegate("B", ch), pubkey),
                            ScalarBaseMul("B", sv.val))
        IN  IF R.err \/ sv.err THEN "false"
            ELSE IF PointEquals(res, R.val) THEN "true" ELSE "false"

(***************************************************************************)
(* Bit commitments (dleq.go)                                               *)
(***************************************************************************)
Panic(msg) == "panic: " \o msg

\* a slip: the accumulated power of two starts at ScalarFromInt(1)
verifyCommitmentsSumFirstPowerOne(c) == ScalarFromInt(c, 1)

\* currPowerOfTwo := curve.ScalarFromInt(2)
verifyCommitmentsSumFirstPower(c) == ScalarFromInt(c, 2)

\* verifyCommitmentsSum verifies that all the commitments sum to the given point.
verifyCommitmentsSum(c, cs, point) ==
    IF Len(cs) = 0 THEN Panic("index out of range [0] with length 0")
    ELSE
        LET two == ScalarFromInt(c, 2)
            \* f[i]: sum and currPowerOfTwo once cs[1..i] are added
            f[i \in 1..Len(cs)] ==
                IF i = 1
                THEN [sum |-> PointCopy(cs[1].commitment),
                      pow |-> verifyCommitmentsSumFirstPower(c)]
                ELSE [sum |-> PointAdd(c, f[i - 1].sum,
                                 PointScalarMul(c, cs[i].commitment, f[i - 1].pow)),
                      pow |-> ScalarMul(c, f[i - 1].pow, two)]
        IN  IF PointEquals(f[Len(cs)].sum, point) THEN "nil" ELSE "err"

\* what stands in a draw for a call of NewRandomScalar (or a read of
\* rand.Reader) on which rand.Read returns an error
RngFailure == -2

\* NewRandomScalar: panic(err) on the error of rand.Read
RandReadPanic == Panic("rand.Read failed")

\* a slip: the next power is the last one plus two
generateCommitmentsNextPowerAdding(c, pow) == ScalarAdd(c, pow, ScalarFromInt(c, 2))

\* set 2^(i+1) for next iteration: currPowerOfTwo = currPowerOfTwo.Mul(two)
generateCommitmentsNextPower(c, pow) == ScalarMul(c, pow, ScalarFromInt(c, 2))

\* generateCommitments on the blinders rs that NewRandomScalar returned, in
\* the order drawn (bits-1 of them).  Returns [res, cs]: res is "ok" and cs
\* the commitments, or res is the panic that ended the call.
generateCommitments(c, xs, nbits, rs) ==
    LET two == ScalarFromInt(c, 2)
        \* st[i]: the locals after i iterations of the loop
        st[i \in 0..nbits] ==
            IF i = 0
            THEN [res |-> "ok", sum |-> ScalarFromInt(c, 0),
                  pow |-> ScalarFromInt(c, 1), cs |-> <<>>]
            ELSE
                LET s == st[i - 1]
                    idx == i - 1
                    last == (idx = nbits - 1)
                    blinder ==
                        IF last
                        THEN ScalarMul(c, ScalarNegate(c, s.sum), ScalarInverse(c, s.pow))
                        ELSE rs[idx + 1]
                    sum2 == ScalarAdd(c, s.sum, ScalarMul(c, blinder, s.pow))
                    pow2 == IF last THEN s.pow
                            ELSE generateCommitmentsNextPower(c, s.pow)
                    b == ScalarFromInt(c, getBit(xs, idx))
                    bG == ScalarBaseMul(c, b)
                    rG == CurveScalarMul(c, blinder, AltBasePoint(c))
                    cm == PointAdd(c, bG, rG)
                    stop(msg) == [s EXCEPT !.res = Panic(msg)]
                IN  IF s.res # "ok" THEN s
                    ELSE IF ~last /\ rs[idx + 1] = RngFailure
                        THEN [s EXCEPT !.res = RandReadPanic]
                    ELSE IF last /\ ~ScalarIsZero(sum2)
                        THEN stop("sum of blinders is not zero")
                    ELSE IF ~last /\ ScalarIsZero(pow2)
                        THEN stop("power of two should not be zero")
                    ELSE IF ScalarIsZero(blinder) THEN stop("blinder is zero")
                    ELSE IF PointIsZero(c, cm) THEN stop("commitment should not be zero")
                    ELSE IF getBit(xs, idx) = 0 /\ ~PointEquals(cm, rG)
                        THEN stop("commitment should be rG if bit isn't set")
                    ELSE [res |-> "ok", sum |-> sum2, pow |-> pow2,
                          cs |-> Append(s.cs, [blinder |-> blinder, commitment |-> cm])]
    IN  [res |-> st[nbits].res, cs |-> st[nbits].cs]

(***************************************************************************)
(* The proof (dleq.go, verify.go, serde.go)                                *)
(***************************************************************************)
\* F applied to the value of e; e is computed once
With(e, F(_)) == CHOOSE r \in {F(v) : v \in {e}} : TRUE

NilCommitment == [blinder |-> NilScalar, commitment |-> NilPoint]
NilRingSig == [eCurveA |-> NilScalar, eCurveB |-> NilScalar, a0 |-> NilScalar,
               a1 |-> NilScalar, b0 |-> NilScalar, b1 |-> NilScalar]

\* the zero value of bitProof
NilBitProof == [commitmentA |-> NilCommitment, commitmentB |-> NilCommitment,
                ringSig |-> NilRingSig]

\* the zero value of Proof: new(Proof)
NoProof == [CommitmentA |-> NilPoint, CommitmentB |-> NilPoint, proofs |-> <<>>,
            signatureA |-> <<>>, signatureB |-> <<>>]

\* a slip: the response leaves out challenge * blinder
RingResponseNonceOnly(c, nonce, e, blinder) == nonce

\* j.Add(e.Mul(commitment.blinder))
RingResponse(c, nonce, e, blinder) == ScalarAdd(c, nonce, ScalarMul(c, e, blinder))

\* the two calls of hashToScalar on the same elements, one per curve
\* (A is -1 for the panic of HashToScalar on curve A)
hashToScalars(cA, cB, lA, lB) ==
    [A |-> hashToScalar("A", cA, cB, lA, lB), B |-> hashToScalar("B", cA, cB, lA, lB)]

\* generateRingSignature for the bit x and its two commitments, on the draws
\* rnd = [j, k, a, b] of NewRandomScalar: the nonces j, k and the responses
\* a, b of the simulated branch.  Returns [res, sig].
generateRingSignature(bit, cmA, cmB, rnd) ==
    LET CA == cmA.commitment
        CB == cmB.commitment
        jH == CurveScalarMul("A", rnd.j, AltBasePoint("A"))
        kH == CurveScalarMul("B", rnd.k, AltBasePoint("B"))
        A0 == CurveScalarMul("A", rnd.a, AltBasePoint("A"))
        B0 == CurveScalarMul("B", rnd.b, AltBasePoint("B"))
        ecA(e) == IF bit = 0
                  THEN PointScalarMul("A", PointSub("A", CA, BasePoint("A")), e.A)
                  ELSE PointScalarMul("A", CA, e.A)
        ecB(e) == IF bit = 0
                  THEN PointScalarMul("B", PointSub("B", CB, BasePoint("B")), e.B)
                  ELSE PointScalarMul("B", CB, e.B)
        stop(r) == [res |-> r, sig |-> NilRingSig]
    IN  IF rnd.j = RngFailure \/ rnd.k = RngFailure THEN stop(RandReadPanic)
        ELSE With(hashToScalars(CA, CB, jH, kH), LAMBDA e :
          IF e.A = -1 THEN stop(Panic("hash should not be reduced twice"))
          ELSE IF bit \notin {0, 1} THEN stop("input byte must be 0 or 1")
          ELSE IF rnd.a = RngFailure \/ rnd.b = RngFailure THEN stop(RandReadPanic)
          ELSE With(hashToScalars(CA, CB, PointSub("A", A0, ecA(e)),
                                  PointSub("B", B0, ecB(e))), LAMBDA e2 :
            IF e2.A = -1 THEN stop(Panic("hash should not be reduced twice"))
            ELSE IF bit = 0
            THEN [res |-> "ok",
                  sig |-> [eCurveA |-> e2.A, eCurveB |-> e2.B,
                           a0 |-> rnd.a,
                           a1 |-> RingResponse("A", rnd.j, e2.A, cmA.blinder),
                           b0 |-> rnd.b,
                           b1 |-> RingResponse("B", rnd.k, e2.B, cmB.blinder)]]
            ELSE [res |-> "ok",
                  sig |-> [eCurveA |-> e.A, eCurveB |-> e.B,
                           a0 |-> RingResponse("A", rnd.j, e2.A, cmA.blinder),
                           a1 |-> rnd.a,
                           b0 |-> RingResponse("B", rnd.k, e2.B, cmB.blinder),
                           b1 |-> rnd.b]]))

\* the error ecdsa.SignASN1 returns when it cannot read rand.Reader
SignRandError == "ecdsa: cannot read the random source"

\* the larger of the two bit sizes
NewProofBitsMax == IF BitSize("A") > BitSize("B") THEN BitSize("A") ELSE BitSize("B")

\* bits := min(curveA.BitSize(), curveB.BitSize())
NewProofBits == min(BitSize("A"), BitSize("B"))

\* the loop of NewProof over the bits below n: what generateRingSignature
\* returned for each
RECURSIVE NewProofRings(_, _, _, _, _)
NewProofRings(xs, csA, csB, rings, n) ==
    IF n = 0 THEN <<>>
    ELSE Append(NewProofRings(xs, csA, csB, rings, n - 1),
                generateRingSignature(getBit(xs, n - 1), csA[n], csB[n], rings[n]))

\* NewProof(curveA, curveB, x) on the draws rnd = [blindersA, blindersB,
\* rings, nonce]; returns [res, proof]: res is "nil" and proof the proof, or
\* res is the error (or the panic) and there is no proof
NewProof(xs, rnd) ==
    LET nbits == NewProofBits
        fail(r) == [res |-> r, proof |-> NoProof]
        xA == ScalarFromBytesA(xs)
        xB == ScalarFromBytesB(xs)
        XA == ScalarBaseMul("A", xA)
        XB == ScalarBaseMul("B", xB)
    IN  IF checkWitnessSize(xs, nbits) # "nil" THEN fail("secret must be under bits")
        ELSE IF xB = -1 THEN fail(Panic("invalid scalar encoding"))
        ELSE With(generateCommitments("A", xs, nbits, rnd.blindersA), LAMBDA gA :
          IF gA.res # "ok" THEN fail(gA.res)
          ELSE IF verifyCommitmentsSum("A", gA.cs, XA) # "nil"
              THEN fail("commitments do not sum to given point")
          ELSE With(generateCommitments("B", xs, nbits, rnd.blindersB), LAMBDA gB :
            IF gB.res # "ok" THEN fail(gB.res)
            ELSE IF verifyCommitmentsSum("B", gB.cs, XB) # "nil"
                THEN fail("commitments do not sum to given point")
            ELSE With(NewProofRings(xs, gA.cs, gB.cs, rnd.rings, nbits), LAMBDA ring :
              LET bad == {i \in 1..nbits : ring[i].res # "ok"}
                  first == CHOOSE i \in bad : \A k \in bad : i <= k
              IN  IF bad # {} THEN fail(ring[first].res)
                  \* sigA, err := curveA.Sign(xA, XA): the error of rand.Reader
                  ELSE IF rnd.nonce = RngFailure THEN fail(SignRandError)
                  ELSE [res |-> "nil",
                        proof |->
                          [CommitmentA |-> XA, CommitmentB |-> XB,
                           proofs |-> [i \in 1..nbits |->
                              [commitmentA |-> gA.cs[i], commitmentB |-> gB.cs[i],
                               ringSig |-> ring[i].sig]],
                           signatureA |-> SignA(xA, XA, rnd.nonce),
                           signatureB |-> SignB(xB, XB)]])))

\* the challenges a verifier recomputes for one bit proof: (eA0, eB0) of the
\* loop body of Proof.Verify (A is -1 for the panic of HashToScalar)
RingChallenges(bp) ==
    LET CA == bp.commitmentA.commitment
        CB == bp.commitmentB.commitment
        rs == bp.ringSig
        aG1 == CurveScalarMul("A", rs.a1, AltBasePoint("A"))
        eCA == PointScalarMul("A", CA, rs.eCurveA)
        bH1 == CurveScalarMul("B", rs.b1, AltBasePoint("B"))
        eCB == PointScalarMul("B", CB, rs.eCurveB)
        aG0 == CurveScalarMul("A", rs.a0, AltBasePoint("A"))
        bH0 == CurveScalarMul("B", rs.b0, AltBasePoint("B"))
        ecA(e1) == PointScalarMul("A", PointSub("A", CA, BasePoint("A")), e1.A)
        ecB(e1) == PointScalarMul("B", PointSub("B", CB, BasePoint("B")), e1.B)
    IN  With(hashToScalars(CA, CB, PointSub("A", aG1, eCA), PointSub("B", bH1, eCB)),
             LAMBDA e1 :
          IF e1.A = -1 THEN e1
          ELSE hashToScalars(CA, CB, PointSub("A", aG0, ecA(e1)),
                             PointSub("B", bH0, ecB(e1))))

\* eA0.Eq(proof.ringSig.eCurveA) && eB0.Eq(proof.ringSig.eCurveB)
RingCloses(bp) ==
    With(RingChallenges(bp), LAMBDA e0 :
        ScalarEq(e0.A, bp.ringSig.eCurveA) /\ ScalarEq(e0.B, bp.ringSig.eCurveB))

\* a proof on which a method call dereferences a nil Point or Scalar
HasNil(p) ==
    \/ p.CommitmentA = NilPoint
    \/ p.CommitmentB = NilPoint
    \/ \E i \in 1..Len(p.proofs) :
          \/ p.proofs[i].commitmentA.commitment = NilPoint
          \/ p.proofs[i].commitmentB.commitment = NilPoint
          \/ p.proofs[i].ringSig = NilRingSig

\* the ring loop of Proof.Verify from bit i (counted from 1) up to nbits
RECURSIVE VerifyRings(_, _, _)
VerifyRings(p, i, nbits) ==
    IF i > nbits THEN "nil"
    ELSE IF i > Len(p.proofs) THEN Panic("index out of range")
    ELSE With(RingChallenges(p.proofs[i]), LAMBDA e0 :
        IF e0.A = -1 THEN Panic("hash should not be reduced twice")
        ELSE IF ~(ScalarEq(e0.A, p.proofs[i].ringSig.eCurveA)
                    /\ ScalarEq(e0.B, p.proofs[i].ringSig.eCurveB))
            THEN "invalid proof"
        ELSE VerifyRings(p, i + 1, nbits))

\* a slip: the signatures are verified before the commitment sums
ProofVerifySignaturesFirst(p) ==
    LET n == Len(p.proofs)
        commitmentsA == [i \in 1..n |-> p.proofs[i].commitmentA]
        commitmentsB == [i \in 1..n |-> p.proofs[i].commitmentB]
    IN  IF n = 0 THEN Panic("index out of range [0] with length 0")
        ELSE IF HasNil(p) THEN Panic("nil pointer dereference")
        ELSE IF ~VerifyA(p.CommitmentA, p.CommitmentA, p.signatureA)
            THEN "failed to verify signature on commitment A"
        ELSE With(VerifyB(p.CommitmentB, p.CommitmentB, p.signatureB), LAMBDA vB :
            IF vB = "panic" THEN Panic("slice bounds out of range")
            ELSE IF vB = "false" THEN "failed to verify signature on commitment B"
            ELSE IF verifyCommitmentsSum("A", commitmentsA, p.CommitmentA) # "nil"
                THEN "failed to verify commitment on curve A"
            ELSE IF verifyCommitmentsSum("B", commitmentsB, p.CommitmentB) # "nil"
                THEN "failed to verify commitment on curve B"
            ELSE VerifyRings(p, 1, min(BitSize("A"), BitSize("B"))))

\* Proof.Verify: "nil", the error, or the panic that ends the call
ProofVerify(p) ==
    LET n == Len(p.proofs)
        commitmentsA == [i \in 1..n |-> p.proofs[i].commitmentA]
        commitmentsB == [i \in 1..n |-> p.proofs[i].commitmentB]
    IN  IF n = 0 THEN Panic("index out of range [0] with length 0")
        ELSE IF HasNil(p) THEN Panic("nil pointer dereference")
        ELSE IF verifyCommitmentsSum("A", commitmentsA, p.CommitmentA) # "nil"
            THEN "failed to verify commitment on curve A"
        ELSE IF verifyCommitmentsSum("B", commitmentsB, p.CommitmentB) # "nil"
            THEN "failed to verify commitment on curve B"
        ELSE IF ~VerifyA(p.CommitmentA, p.CommitmentA, p.signatureA)
            THEN "failed to verify signature on commitment A"
        ELSE With(VerifyB(p.CommitmentB, p.CommitmentB, p.signatureB), LAMBDA vB :
            IF vB = "panic" THEN Panic("slice bounds out of range")
            ELSE IF vB = "false" THEN "failed to verify signature on commitment B"
            ELSE VerifyRings(p, 1, min(BitSize("A"), BitSize("B"))))

\* a slip: the normalisation leaves the opposite point
ToAffineNegating(P) == (OrderA - P) % OrderA

\* JacobianPoint.ToAffine, called on the receiver's own point by
\* secp256k1 CurveImpl.Verify, PointImpl.Encode and PointImpl.Equals: the
\* representation is normalised in place, the point it stands for stays
ToAffine(P) == P

\* the receiver of Proof.Verify as the call leaves it: the curve-A points the
\* call hands to Verify, Equals and Encode are normalised in place, and
\* nothing else of the proof is written
ProofVerifyEffect(p) ==
    [p EXCEPT !.CommitmentA = ToAffine(@),
              !.proofs = [i \in 1..Len(p.proofs) |->
                  [p.proofs[i] EXCEPT !.commitmentA.commitment = ToAffine(@)]]]

\* a slip: the responses are written before the challenges
bitProofEncodeResponsesFirst(bp) ==
    PointEncodeA(bp.commitmentA.commitment) \o PointEncodeB(bp.commitmentB.commitment)
        \o ScalarEncode("A", bp.ringSig.a0) \o ScalarEncode("A", bp.ringSig.a1)
        \o ScalarEncode("B", bp.ringSig.b0) \o ScalarEncode("B", bp.ringSig.b1)
        \o ScalarEncode("A", bp.ringSig.eCurveA) \o ScalarEncode("B", bp.ringSig.eCurveB)

\* a slip: the blinders are written in the place of a0 and b0
bitProofEncodeWithBlinders(bp) ==
    PointEncodeA(bp.commitmentA.commitment) \o PointEncodeB(bp.commitmentB.commitment)
        \o ScalarEncode("A", bp.ringSig.eCurveA) \o ScalarEncode("B", bp.ringSig.eCurveB)
        \o ScalarEncode("A", bp.commitmentA.blinder) \o ScalarEncode("A", bp.ringSig.a1)
        \o ScalarEncode("B", bp.commitmentB.blinder) \o ScalarEncode("B", bp.ringSig.b1)

\* bitProof.encode
bitProofEncode(bp) ==
    PointEncodeA(bp.commitmentA.commitment) \o PointEncodeB(bp.commitmentB.commitment)
        \o ScalarEncode("A", bp.ringSig.eCurveA) \o ScalarEncode("B", bp.ringSig.eCurveB)
        \o ScalarEncode("A", bp.ringSig.a0) \o ScalarEncode("A", bp.ringSig.a1)
        \o ScalarEncode("B", bp.ringSig.b0) \o ScalarEncode("B", bp.ringSig.b1)

\* Proof.Serialize
Serialize(p) ==
    LET enc[i \in 0..Len(p.proofs)] ==
            IF i = 0 THEN <<>> ELSE enc[i - 1] \o bitProofEncode(p.proofs[i])
    IN  PointEncodeA(p.CommitmentA) \o PointEncodeB(p.CommitmentB)
            \o <<Len(p.proofs) % 256>> \o enc[Len(p.proofs)]
            \o <<Len(p.signatureA) % 256>> \o p.signatureA
            \o <<Len(p.signatureB) % 256>> \o p.signatureB

\* the length of one encoded bit proof
BitProofLen == PointLenA + PointLenB + ScalarLen * 6

\* bitProof.decode on the unread bytes r: [err, bp, rest]
bitProofDecode(r) ==
    LET r1 == Drop(r, PointLenA)
        r2 == Drop(r1, PointLenB)
        r3 == Drop(r2, ScalarLen)
        r4 == Drop(r3, ScalarLen)
        r5 == Drop(r4, ScalarLen)
        r6 == Drop(r5, ScalarLen)
        r7 == Drop(r6, ScalarLen)
        r8 == Drop(r7, ScalarLen)
        cA == DecodeToPoint("A", Take(r, PointLenA))
        cB == DecodeToPoint("B", Take(r1, PointLenB))
        eA == DecodeToScalar("A", Take(r2, ScalarLen))
        eB == DecodeToScalar("B", Take(r3, ScalarLen))
        a0 == DecodeToScalar("A", Take(r4, ScalarLen))
        a1 == DecodeToScalar("A", Take(r5, ScalarLen))
        b0 == DecodeToScalar("B", Take(r6, ScalarLen))
        b1 == DecodeToScalar("B", Take(r7, ScalarLen))
        bad(rest) == [err |-> TRUE, bp |-> NilBitProof, rest |-> rest]
    IN  IF cA.err THEN bad(r1)
        ELSE IF cB.err THEN bad(r2)
        ELSE IF eA.err THEN bad(r3)
        ELSE IF eB.err THEN bad(r4)
        ELSE IF a0.err THEN bad(r5)
        ELSE IF a1.err THEN bad(r6)
        ELSE IF b0.err THEN bad(r7)
        ELSE IF b1.err THEN bad(r8)
        ELSE [err |-> FALSE,
              bp |-> [commitmentA |-> [blinder |-> NilScalar, commitment |-> cA.val],
                      commitmentB |-> [blinder |-> NilScalar, commitment |-> cB.val],
                      ringSig |-> [eCurveA |-> eA.val, eCurveB |-> eB.val,
                                   a0 |-> a0.val, a1 |-> a1.val,
                                   b0 |-> b0.val, b1 |-> b1.val]],
              rest |-> r8]

\* the decode loop of Deserialize from index i (counted from 0) up to n, on
\* st = [err, proofs, rest]: the slice p.proofs and the reader so far
RECURSIVE DeserializeProofs(_, _, _)
DeserializeProofs(st, i, n) ==
    IF i >= n THEN st
    ELSE With(bitProofDecode(st.rest), LAMBDA d :
        IF d.err THEN [err |-> TRUE, proofs |-> st.proofs, rest |-> d.rest]
        ELSE With([err |-> FALSE, proofs |-> [st.proofs EXCEPT ![i + 1] = d.bp],
                   rest |-> d.rest],
                  LAMBDA st2 : DeserializeProofs(st2, i + 1, n)))

\* a slip: the length of the second signature is not compared with the
\* bytes left
DeserializeSignaturesLastUnchecked(p, r4) ==
    LET lenA == r4[1]
        r5 == Drop(r4, 1)
        pSA == [p EXCEPT !.signatureA = Take(r5, lenA)]
        r6 == Drop(r5, lenA)
        lenB == r6[1]
        r7 == Drop(r6, 1)
    IN  IF Len(r4) < 1 THEN [err |-> "input bytes too short", p |-> p]
        ELSE IF Len(r5) < lenA THEN [err |-> "input bytes too short", p |-> p]
        ELSE IF Len(r6) < 1 THEN [err |-> "input bytes too short", p |-> pSA]
        ELSE [err |-> "nil", p |-> [pSA EXCEPT !.signatureB = Take(r7, lenB)]]

\* the two signatures at the end of Deserialize, on the unread bytes r4
DeserializeSignatures(p, r4) ==
    LET lenA == r4[1]
        r5 == Drop(r4, 1)
        pSA == [p EXCEPT !.signatureA = Take(r5, lenA)]
        r6 == Drop(r5, lenA)
        lenB == r6[1]
        r7 == Drop(r6, 1)
    IN  IF Len(r4) < 1 THEN [err |-> "input bytes too short", p |-> p]
        ELSE IF Len(r5) < lenA THEN [err |-> "input bytes too short", p |-> p]
        ELSE IF Len(r6) < 1 THEN [err |-> "input bytes too short", p |-> pSA]
        ELSE IF Len(r7) < lenB THEN [err |-> "input bytes too short", p |-> pSA]
        ELSE [err |-> "nil", p |-> [pSA EXCEPT !.signatureB = Take(r7, lenB)]]

\* Proof.Deserialize into the receiver p: [err, p], err "nil" or the error,
\* p the receiver as the call leaves it
Deserialize(p, in) ==
    LET r2 == Drop(in, PointLenA + PointLenB)
        nproofs == r2[1]
        r3 == Drop(r2, 1)
    IN  IF Len(in) < PointLenA + PointLenB THEN [err |-> "input bytes too short", p |-> p]
        ELSE With(DecodeToPoint("A", Take(in, PointLenA)), LAMBDA cA :
          IF cA.err THEN [err |-> "invalid point", p |-> [p EXCEPT !.CommitmentA = cA.val]]
          ELSE With(DecodeToPoint("B", Take(Drop(in, PointLenA), PointLenB)), LAMBDA cB :
            With([p EXCEPT !.CommitmentA = cA.val, !.CommitmentB = cB.val], LAMBDA pB :
              IF cB.err THEN [err |-> "invalid point", p |-> pB]
              ELSE IF Len(r2) < 1 THEN [err |-> "input bytes too short", p |-> pB]
              ELSE IF Len(r3) < nproofs * BitProofLen
                  THEN [err |-> "input bytes too short", p |-> pB]
              ELSE With(DeserializeProofs(
                            [err |-> FALSE,
                             proofs |-> [k \in 1..nproofs |-> NilBitProof],
                             rest |-> r3], 0, nproofs), LAMBDA dec :
                With([pB EXCEPT !.proofs = dec.proofs], LAMBDA pP :
                  IF dec.err THEN [err |-> "invalid encoding", p |-> pP]
                  ELSE With(dec.rest, LAMBDA r4 : DeserializeSignatures(pP, r4)))))))

(***************************************************************************)
(* The witness helpers as a state machine: a byte string and a bit count   *)
(* are chosen, then checkWitnessSize or generateRandomBits runs on them.   *)
(***************************************************************************)
\* the byte string with exactly the bits in S set
BytesOf(S) ==
    [i \in 0..(WitnessLen - 1) |->
        LET w[k \in 0..ByteBits] ==
                IF k = 0 THEN 0
                ELSE w[k - 1] + (IF (i * ByteBits + k - 1) \in S THEN Pow2[k] ELSE 0)
        IN  w[ByteBits]]

\* the vectors of TestWitnessSize: x[31] = 0xff, x[30] = 0xff, x[30] = 0b00010101
TestVectors ==
    {[ZeroBytes EXCEPT ![31] = 255], [ZeroBytes EXCEPT ![30] = 255],
     [ZeroBytes EXCEPT ![30] = 21]}

\* byte strings tried as witnesses and as output of the random source:
\* one bit set, or all bits below k set (k = 0: zero, k = 256: all ones)
ByteStrings ==
    {BytesOf({k}) : k \in 0..(WitnessBits - 1)}
        \cup {BytesOf(0..(k - 1)) : k \in 0..WitnessBits}
        \cup TestVectors

BitCounts == 1..(WitnessBits - 1)

Fits(xs, nbits) == \A i \in nbits..(WitnessBits - 1) : getBit(xs, i) = 0

\* no proof has been made, serialized or read
NoProtocol ==
    /\ proof = NoProof
    /\ proofRes = "none"
    /\ verifyRes = "none"
    /\ ser = <<>>
    /\ origin = "none"
    /\ deser = NoProof
    /\ deserRes = "none"
    /\ deserVerifyRes = "none"
    /\ rngFailAt = 0
    /\ tampered = NoProof
    /\ tamperKind = <<>>
    /\ tamperRes = "none"
    /\ tamperRes2 = "none"

\* HashToScalar has not been called
NoHash ==
    /\ hashIn = <<>>
    /\ hashRes = [res |-> "none", val |-> 0]

\* generateRingSignature has not been called
NoRing ==
    /\ ringBit = 0
    /\ ringCmA = NilCommitment
    /\ ringCmB = NilCommitment
    /\ ringOut = [res |-> "none", sig |-> NilRingSig]

\* ScalarFromBytes has not been called
NoScalars == fromBytes = [res |-> "none", A |-> NilScalar, B |-> NilScalar]

\* Sign and Verify have not been called
NoSigning ==
    /\ signSk = NilScalar
    /\ signMsg = NilPoint
    /\ signSig = <<>>
    /\ signRes = "none"

\* Deserialize has read no buffer
NoOverwrite == inBuf = <<>>

NoUnits == NoHash /\ NoRing /\ NoScalars /\ NoSigning /\ NoOverwrite

InitWitness ==
    /\ pc = "input"
    /\ x \in ByteStrings
    /\ bits \in BitCounts
    /\ sizeRes = "none"
    /\ curve = "A"
    /\ commitments = <<>>
    /\ commitRes = "none"
    /\ sumRes = "none"
    /\ NoProtocol
    /\ NoUnits

CheckWitnessSize ==
    /\ pc \in {"input", "generated"}
    /\ sizeRes' = checkWitnessSize(x, bits)
    /\ pc' = "checked"
    /\ UNCHANGED <<x, bits, curve, commitments, commitRes, sumRes>>
    /\ UNCHANGED protoVars
    /\ UNCHANGED <<rngFailAt, tamperVars, unitVars>>

\* x holds what rand.Read wrote; generateRandomBits masks it
GenerateRandomBits ==
    /\ pc = "input"
    /\ x' = generateRandomBits(bits, x)
    /\ pc' = "generated"
    /\ UNCHANGED <<bits, sizeRes, curve, commitments, commitRes, sumRes>>
    /\ UNCHANGED protoVars
    /\ UNCHANGED <<rngFailAt, tamperVars, unitVars>>

\* xA := curveA.ScalarFromBytes(x); xB := curveB.ScalarFromBytes(x), on a
\* witness that checkWitnessSize let through
CallScalarFromBytes ==
    /\ pc = "checked"
    /\ sizeRes = "nil"
    /\ \E a \in {ScalarFromBytesA(x)}, b \in {ScalarFromBytesB(x)} :
        fromBytes' = [res |-> IF b = -1 THEN "panic" ELSE "ok", A |-> a, B |-> b]
    /\ pc' = "converted"
    /\ UNCHANGED helperVars
    /\ UNCHANGED protoVars
    /\ UNCHANGED <<rngFailAt, tamperVars, hashIn, hashRes, ringBit, ringCmA,
                   ringCmB, ringOut, signVars, inBuf>>

NextWitness == CheckWitnessSize \/ GenerateRandomBits \/ CallScalarFromBytes

SpecWitness == InitWitness /\ [][NextWitness]_vars

(***************************************************************************)
(* The bit-commitment engine as a state machine (TestGenerateCommitments): *)
(* generateCommitments on a curve, a bit count and a witness that fits it, *)
(* for every draw of the blinders, then verifyCommitmentsSum against x*G.  *)
(***************************************************************************)
MaxCommitBits == 3

\* the witness whose low byte is v
WitnessOfByte(v) == [ZeroBytes EXCEPT ![0] = v]

\* x*G for the integer x the witness bytes hold
WitnessPoint(c, xs) == ScalarBaseMul(c, LEValueMod(xs, Order(c)))

InitCommit ==
    /\ pc = "input"
    /\ curve \in Curves
    /\ bits \in 1..MaxCommitBits
    /\ x \in {WitnessOfByte(v) : v \in 0..(Pow2[bits + 1] - 1)}
    /\ sizeRes = "none"
    /\ commitments = <<>>
    /\ commitRes = "none"
    /\ sumRes = "none"
    /\ NoProtocol
    /\ NoUnits

GenerateCommitments ==
    /\ pc = "input"
    /\ \E rs \in [1..(bits - 1) -> Scalars(curve)] :
        LET r == generateCommitments(curve, x, bits, rs)
        IN  /\ commitRes' = r.res
            /\ commitments' = r.cs
    /\ pc' = "committed"
    /\ UNCHANGED <<x, bits, sizeRes, curve, sumRes>>
    /\ UNCHANGED protoVars
    /\ UNCHANGED <<rngFailAt, tamperVars, unitVars>>

VerifyCommitmentsSum ==
    /\ pc = "committed"
    /\ commitRes = "ok"
    /\ sumRes' = verifyCommitmentsSum(curve, commitments, WitnessPoint(curve, x))
    /\ pc' = "summed"
    /\ UNCHANGED <<x, bits, sizeRes, curve, commitments, commitRes>>
    /\ UNCHANGED protoVars
    /\ UNCHANGED <<rngFailAt, tamperVars, unitVars>>

NextCommit == GenerateCommitments \/ VerifyCommitmentsSum

SpecCommit == InitCommit /\ [][NextCommit]_vars

\* sum over i < n of 2^i * C_i, computed directly
WeightedSum(c, cs) ==
    LET w[i \in 0..Len(cs)] ==
            IF i = 0 THEN 0
            ELSE (w[i - 1] + Pow2[i] * cs[i].commitment) % Order(c)
    IN  w[Len(cs)]

\* C10: whenever generateCommitments(curve, x, bits) returns, for bits >= 2 and
\* x fitting in bits bits, it returns exactly bits commitments with
\* C_i = b_i*G + r_i*H, the sum over i of 2^i*C_i equals x*G, and
\* verifyCommitmentsSum accepts them against X = x*G.
C10_CommitmentsSum ==
    (pc \in {"committed", "summed"} /\ commitRes = "ok") =>
        /\ Len(commitments) = bits
        /\ \A i \in 0..(bits - 1) :
            commitments[i + 1].commitment =
                (getBit(x, i) * BasePoint(curve)
                    + commitments[i + 1].blinder * AltBasePoint(curve)) % Order(curve)
        /\ WeightedSum(curve, commitments) = WitnessPoint(curve, x)
        /\ pc = "summed" => sumRes = "nil"

\* verifyCommitmentsSum has accepted commitments to a witness with both bit
\* values, on the smaller curve
C10_Witness ==
    /\ pc = "summed"
    /\ curve = "B"
    /\ bits = 3
    /\ x = WitnessOfByte(5)
    /\ sumRes = "nil"

\* r_{n-1}*2^{n-1} + the sum over i < n-1 of r_i*2^i, in the scalar field,
\* for the blinders r of the n commitments cs
BlinderSum(c, cs) ==
    LET n == Len(cs)
        w[i \in 0..(n - 1)] ==
            IF i = 0 THEN 0
            ELSE (w[i - 1] + cs[i].blinder * Pow2[i]) % Order(c)
    IN  (cs[n].blinder * Pow2[n] + w[n - 1]) % Order(c)

\* C21: for every curve and bits >= 2, the blinders of the commitments that
\* generateCommitments returns satisfy
\* r_{bits-1}*2^{bits-1} + sum over i < bits-1 of r_i*2^i = 0 in the scalar
\* field, for every draw of the first bits-1 blinders.
C21_BlindersCancel ==
    (pc \in {"committed", "summed"} /\ commitRes = "ok" /\ bits >= 2) =>
        /\ Len(commitments) = bits
        /\ BlinderSum(curve, commitments) = 0

\* generateCommitments has returned three commitments on curve A whose first
\* two blinders are different draws
C21_Witness ==
    /\ pc = "committed"
    /\ commitRes = "ok"
    /\ curve = "A"
    /\ bits = 3
    /\ commitments[1].blinder = 5
    /\ commitments[2].blinder = 11

\* the aborts of generateCommitments that its comments call impossible
ImpossibleAborts ==
    {Panic("sum of blinders is not zero"), Panic("power of two should not be zero")}

\* C22: over a scalar field of odd prime order, for every bits >= 1, every
\* witness and every draw of the blinders, generateCommitments never reaches
\* the aborts "sum of blinders is not zero" or "power of two should not be
\* zero".
C22_ImpossibleAbortsUnreachable ==
    pc \in {"committed", "summed"} => commitRes \notin ImpossibleAborts

\* generateCommitments has passed both checks in every iteration on the
\* largest bit count and returned, on curve B and the witness 0
C22_Witness ==
    /\ pc = "committed"
    /\ bits = MaxCommitBits
    /\ commitRes = "ok"
    /\ curve = "B"
    /\ x = WitnessOfByte(0)

(***************************************************************************)
(* HashToScalar of secp256k1 as a state machine: an input is chosen, then  *)
(* HashToScalar runs on it.  The conversion of the digest shows only on    *)
(* scalars of more than one byte, so the group here has scalars of         *)
(* WideScalarLen bytes and an order that fills them as the order of        *)
(* secp256k1 fills 32 bytes: 256^len - order is about the square root of   *)
(* 256^len.                                                                *)
(***************************************************************************)
WideScalarLen == 2
WideOrder == 65269

MaxHashLen == 2
MaxHashByte == 15

\* the inputs of HashToScalar: byte strings of up to MaxHashLen bytes
HashInputs ==
    UNION {[1..n -> 0..MaxHashByte] : n \in 0..MaxHashLen}

\* no proof, commitment or witness is at hand
Idle ==
    /\ x = ZeroBytes
    /\ bits = 1
    /\ sizeRes = "none"
    /\ curve = "A"
    /\ commitments = <<>>
    /\ commitRes = "none"
    /\ sumRes = "none"
    /\ NoProtocol
    /\ NoScalars
    /\ NoOverwrite

InitHash ==
    /\ pc = "input"
    /\ hashIn \in HashInputs
    /\ hashRes = [res |-> "none", val |-> 0]
    /\ Idle
    /\ NoRing
    /\ NoSigning

\* s, err := curve.HashToScalar(in)
CallHashToScalar ==
    /\ pc = "input"
    /\ \E v \in {HashToScalarOn(hashIn, WideOrder, WideScalarLen)} :
        hashRes' = IF v = -1 THEN [res |-> "panic", val |-> 0]
                   ELSE [res |-> "ok", val |-> v]
    /\ pc' = "hashed"
    /\ UNCHANGED helperVars
    /\ UNCHANGED protoVars
    /\ UNCHANGED <<rngFailAt, tamperVars, hashIn, ringBit, ringCmA, ringCmB, ringOut>>
    /\ UNCHANGED <<fromBytes, signVars, inBuf>>

NextHash == CallHashToScalar

SpecHash == InitHash /\ [][NextHash]_vars

\* C16: for every input, HashToScalar on secp256k1 returns the scalar whose
\* value is the SHA3-512 digest read as a big-endian integer, modulo the
\* order, also when the reduced value has leading zero bytes, and it never
\* aborts.
C16_HashToScalarIsReference ==
    pc = "hashed" =>
        /\ hashRes.res = "ok"
        /\ hashRes.val = BEValue(Sha3Sum512(hashIn)) % WideOrder

(***************************************************************************)
(* generateRingSignature as a state machine (TestGenerateRingSignature):   *)
(* a byte x and commitments to it on both curves are chosen, then          *)
(* generateRingSignature runs on them, for every draw of the nonces and    *)
(* for the least and greatest simulated responses.                         *)
(***************************************************************************)
MaxBitByte == 2

\* the commitment b*G + r*H with its blinder r
CommitmentTo(c, b, r) ==
    [blinder |-> r,
     commitment |-> PointAdd(c, ScalarBaseMul(c, ScalarFromInt(c, b)),
                             CurveScalarMul(c, r, AltBasePoint(c)))]

\* the responses drawn for the simulated branch: the least and the
\* greatest scalars
SimulatedResponses(c) == {0, 1, Order(c) - 1}

InitRing ==
    /\ pc = "input"
    /\ ringBit \in 0..MaxBitByte
    /\ ringCmA \in {CommitmentTo("A", ringBit % 2, r) : r \in Scalars("A")}
    /\ ringCmB \in {CommitmentTo("B", ringBit % 2, r) : r \in Scalars("B")}
    /\ ringOut = [res |-> "none", sig |-> NilRingSig]
    /\ Idle
    /\ NoHash
    /\ NoSigning

\* ringSig, err := generateRingSignature(curveA, curveB, x, commitmentA, commitmentB)
CallGenerateRingSignature ==
    /\ pc = "input"
    /\ \E j \in Scalars("A"), k \in Scalars("B"),
          a \in SimulatedResponses("A"), b \in SimulatedResponses("B") :
        ringOut' = generateRingSignature(ringBit, ringCmA, ringCmB,
                                         [j |-> j, k |-> k, a |-> a, b |-> b])
    /\ pc' = "signed"
    /\ UNCHANGED helperVars
    /\ UNCHANGED protoVars
    /\ UNCHANGED <<rngFailAt, tamperVars, hashIn, hashRes, ringBit, ringCmA, ringCmB>>
    /\ UNCHANGED <<fromBytes, signVars, inBuf>>

NextRing == CallGenerateRingSignature

SpecRing == InitRing /\ [][NextRing]_vars

\* C20: for each b in {0, 1}, every pair of blinders, commitments
\* C_g = b*G_g + r_g*H_g and every choice of nonces and simulated responses,
\* the ring signature generateRingSignature returns satisfies the verifier's
\* equations: the challenges recomputed as Verify does equal eCurveA and
\* eCurveB; for any x other than 0 or 1 it returns an error.
C20_RingCloses ==
    pc = "signed" =>
        IF ringBit \in {0, 1}
        THEN /\ ringOut.res = "ok"
             /\ RingCloses([commitmentA |-> ringCmA, commitmentB |-> ringCmB,
                            ringSig |-> ringOut.sig])
        ELSE /\ ringOut.res = "input byte must be 0 or 1"
             /\ ringOut.sig = NilRingSig

\* generateRingSignature has signed for a set bit under non-zero blinders
C20_Witness ==
    /\ pc = "signed"
    /\ ringBit = 1
    /\ ringCmA.blinder # 0
    /\ ringCmB.blinder # 0
    /\ ringOut.res = "ok"
    /\ ringOut.sig.eCurveA # 0
    /\ ringOut.sig.eCurveB # 0
    /\ RingCloses([commitmentA |-> ringCmA, commitmentB |-> ringCmB,
                   ringSig |-> ringOut.sig])

(***************************************************************************)
(* Sign and Verify of ed25519 as a state machine: a secret scalar and a    *)
(* message point are chosen, Sign makes the signature, the bytes are       *)
(* handed to Verify under the public key s*G as they are, or as            *)
(* Deserialize would hand them over after reading altered bytes: a byte    *)
(* changed, or a length byte lowered or raised, which cuts the signature   *)
(* short or takes the bytes that follow into it.                           *)
(***************************************************************************)
MaxSigExtra == 2
MaxSigByte == 1
MaxSigMask == 3

\* the length of what ed25519 Sign returns
SignatureLenB == PointLenB + ScalarLen

\* p.signatureB.inner = make([]byte, sigLen[0]); copy(...): the signatures
\* Deserialize can hand to Verify instead of sig, which Sign made
ReadSignatures(sig) ==
    {Take(sig, n) : n \in 0..(Len(sig) - 1)}
        \cup {sig \o e : e \in UNION {[1..k -> 0..MaxSigByte] : k \in 1..MaxSigExtra}}
        \cup {[sig EXCEPT ![k] = XorByte(@, m)] : k \in 1..Len(sig), m \in 1..MaxSigMask}

InitSign ==
    /\ pc = "input"
    /\ signSk \in Scalars("B")
    /\ signMsg \in Scalars("B")
    /\ signSig = <<>>
    /\ signRes = "none"
    /\ Idle
    /\ NoHash
    /\ NoRing

\* sig, err := curve.Sign(s, P)
CallSign ==
    /\ pc = "input"
    /\ signSig' = SignB(signSk, signMsg)
    /\ pc' = "signed"
    /\ UNCHANGED helperVars
    /\ UNCHANGED protoVars
    /\ UNCHANGED <<rngFailAt, tamperVars, hashIn, hashRes, ringBit, ringCmA,
                   ringCmB, ringOut, fromBytes, signSk, signMsg, signRes, inBuf>>

\* the signature goes through bytes that are altered before Deserialize
\* reads them
ReadSignature ==
    /\ pc = "signed"
    /\ signSig' \in ReadSignatures(signSig)
    /\ pc' = "read"
    /\ UNCHANGED helperVars
    /\ UNCHANGED protoVars
    /\ UNCHANGED <<rngFailAt, tamperVars, hashIn, hashRes, ringBit, ringCmA,
                   ringCmB, ringOut, fromBytes, signSk, signMsg, signRes, inBuf>>

\* ok := curve.Verify(s*G, P, sig)
CallVerifySignature ==
    /\ pc \in {"signed", "read"}
    /\ signRes' = VerifyB(ScalarBaseMul("B", signSk), signMsg, signSig)
    /\ pc' = "sigverified"
    /\ UNCHANGED helperVars
    /\ UNCHANGED protoVars
    /\ UNCHANGED <<rngFailAt, tamperVars, hashIn, hashRes, ringBit, ringCmA,
                   ringCmB, ringOut, fromBytes, signSk, signMsg, signSig, inBuf>>

NextSign == CallSign \/ ReadSignature \/ CallVerifySignature

SpecSign == InitSign /\ [][NextSign]_vars

\* the challenge c = H512(R || A || encode(P)) as a scalar
SignatureChallenge(RBytes, A, P) ==
    LEValue(Sha512Sum512(RBytes \o PointEncodeB(A) \o PointEncodeB(P))) % OrderB

\* the signature bytes sig hold encode(R) || encode(S) with S*G - c*A = R
\* for the challenge c of (R, A, P)
SignatureEquationHolds(A, P, sig) ==
    LET RBytes == Take(sig, PointLenB)
        R == SetBytesB(RBytes)
        S == SetCanonicalBytesB(Drop(sig, PointLenB))
        ch == SignatureChallenge(RBytes, A, P)
    IN  /\ ~R.err
        /\ ~S.err
        /\ PointSub("B", ScalarBaseMul("B", S.val), CurveScalarMul("B", ch, A)) = R.val

\* C24: for every non-zero secret scalar s and every message point P,
\* Verify(s*G, P, Sign(s, P)) returns true: Sign returns
\* encode(R) || encode(S) with R = r*G for an r that depends on s alone,
\* c = H512(encode(R) || encode(s*G) || encode(P)) and S = r + c*s, and
\* Verify accepts a signature of that length exactly when S*G - c*A = R for
\* the c it computes from (R, pubkey, message).
C24_SignVerifyRoundTrip ==
    LET A == ScalarBaseMul("B", signSk)
        sig == SignB(signSk, signMsg)
        RBytes == Take(sig, PointLenB)
        R == SetBytesB(RBytes)
        S == SetCanonicalBytesB(Drop(sig, PointLenB))
    IN  /\ (pc \in {"signed", "read", "sigverified"} /\ signSk # 0) =>
              /\ Len(sig) = SignatureLenB
              /\ \A P \in Scalars("B") : Take(SignB(signSk, P), PointLenB) = RBytes
              /\ \E r \in Scalars("B") :
                    /\ R.val = ScalarBaseMul("B", r)
                    /\ S.val = ScalarAdd("B", r,
                                   ScalarMul("B", SignatureChallenge(RBytes, A, signMsg),
                                             signSk))
        /\ (pc = "sigverified" /\ signSk # 0 /\ signSig = sig) => signRes = "true"
        /\ (pc = "sigverified" /\ Len(signSig) = SignatureLenB) =>
              (signRes = "true" <=> SignatureEquationHolds(A, signMsg, signSig))

\* Verify has accepted what Sign made for a secret and a message point that
\* is not the public key
C24_Witness ==
    /\ pc = "sigverified"
    /\ signSk = 3
    /\ signMsg = 2
    /\ signSig = SignB(signSk, signMsg)
    /\ signRes = "true"

\* C28: for every signature byte string whose length is not that of a
\* signature (64 in the code), Verify of ed25519 returns false and does not
\* abort: neither a shorter signature nor a valid one followed by more
\* bytes is accepted.
C28_MalformedLengthRejected ==
    (pc = "sigverified" /\ Len(signSig) # SignatureLenB) => signRes = "false"

(***************************************************************************)
(* The protocol as a state machine (TestProveAndVerify, TestProof_Serde):  *)
(* NewProof on a witness, Verify on the proof, Serialize, Deserialize into *)
(* a new Proof and Verify on that one.  Deserialize also reads the bytes   *)
(* of a prover that appends one more bit proof to the proof it made.       *)
(*                                                                         *)
(* The random source is a byte stream; each seed gives one stream, and the *)
(* draws of a run of NewProof are read from it in the order of the calls.  *)
(***************************************************************************)
MaxSeed == 95
MaxExtra == 2

\* byte i of the stream rand.Read returns under the seed
Entropy(seed, i) == ((seed + 1) * (2 * i + 1) * 73 + i * i * 29 + seed * 5) % 256

\* secp256k1 NewRandomScalar: SetBytes of the bytes read, reduced by the order
NewRandomScalarA(seed, pos) == Entropy(seed, pos) % OrderA

\* ed25519 NewRandomScalar: SetUniformBytes of twice as many bytes, little-endian
NewRandomScalarB(seed, pos) ==
    (Entropy(seed, pos) + 256 * Entropy(seed, pos + 1)) % OrderB

\* the nonce of ecdsa.SignASN1: a scalar in 1..order-1
SignNonce(seed, pos) == 1 + (Entropy(seed, pos) % (OrderA - 1))

\* the draws of one call of NewProof, in the order NewProof makes them:
\* the blinders on A, the blinders on B, then (j, k, a, b) for each bit, then
\* the nonce of the signature on A
DrawsOf(seed) ==
    LET n == NewProofBits
        base == 3 * (n - 1)
    IN  [blindersA |-> [i \in 1..(n - 1) |-> NewRandomScalarA(seed, i - 1)],
         blindersB |-> [i \in 1..(n - 1) |-> NewRandomScalarB(seed, (n - 1) + 2 * (i - 1))],
         rings |-> [i \in 1..n |->
                      [j |-> NewRandomScalarA(seed, base + 6 * (i - 1)),
                       k |-> NewRandomScalarB(seed, base + 6 * (i - 1) + 1),
                       a |-> NewRandomScalarA(seed, base + 6 * (i - 1) + 3),
                       b |-> NewRandomScalarB(seed, base + 6 * (i - 1) + 4)]],
         nonce |-> SignNonce(seed, base + 6 * n)]

Draws == {DrawsOf(seed) : seed \in 0..MaxSeed}

\* the number of reads of the random source one call of NewProof makes
NumDraws == 2 * (NewProofBits - 1) + 4 * NewProofBits + 1

\* the draws under the seed when the d-th read of the random source, in the
\* order NewProof makes them, returns an error
DrawsFailingAt(seed, d) ==
    LET n == NewProofBits
        ok == DrawsOf(seed)
        put(k, v) == IF k = d THEN RngFailure ELSE v
        ringAt(i) == 2 * (n - 1) + 4 * (i - 1)
    IN  [blindersA |-> [i \in 1..(n - 1) |-> put(i, ok.blindersA[i])],
         blindersB |-> [i \in 1..(n - 1) |-> put((n - 1) + i, ok.blindersB[i])],
         rings |-> [i \in 1..n |->
                      [j |-> put(ringAt(i) + 1, ok.rings[i].j),
                       k |-> put(ringAt(i) + 2, ok.rings[i].k),
                       a |-> put(ringAt(i) + 3, ok.rings[i].a),
                       b |-> put(ringAt(i) + 4, ok.rings[i].b)]],
         nonce |-> put(NumDraws, ok.nonce)]

\* witnesses handed to NewProof: every value of the low bits up to the larger
\* bit size, and the vectors of TestWitnessSize
ProofWitnesses ==
    {WitnessOfByte(v) : v \in 0..(Pow2[NewProofBitsMax + 1] - 1)} \cup TestVectors

\* the proof p of the witness xs with one more bit proof appended by its
\* prover: the commitments k*G on both curves at index len(p.proofs) with a
\* zero ring signature, X_A and X_B moved by 2^len * k*G, and both
\* signatures made again under the moved keys with the given nonce
Extended(p, xs, k, nonce) ==
    LET n == Len(p.proofs)
        w == Pow2[n + 1]
        xA == (ScalarFromBytesA(xs) + w * k) % OrderA
        xB == (ScalarFromBytesB(xs) + w * k) % OrderB
        XA == ScalarBaseMul("A", xA)
        XB == ScalarBaseMul("B", xB)
        zero == [eCurveA |-> 0, eCurveB |-> 0, a0 |-> 0, a1 |-> 0, b0 |-> 0, b1 |-> 0]
        extra == [commitmentA |->
                      [blinder |-> NilScalar, commitment |-> ScalarBaseMul("A", k % OrderA)],
                  commitmentB |->
                      [blinder |-> NilScalar, commitment |-> ScalarBaseMul("B", k % OrderB)],
                  ringSig |-> zero]
    IN  [CommitmentA |-> XA, CommitmentB |-> XB, proofs |-> Append(p.proofs, extra),
         signatureA |-> SignA(xA, XA, nonce), signatureB |-> SignB(xB, XB)]

\* the masks XORed into a byte of a proof
MaxMask == 2

\* the greatest byte written after the bytes of a proof
MaxTrailingByte == 1

\* the bytes bs with the mask m XORed into byte k (counted from 1)
XorAt(bs, k, m) == [bs EXCEPT ![k] = XorByte(@, m)]

\* the alterations of a proof in memory (TestProveAndVerify's proof, then a
\* field set by hand): X_A or X_B moved by G, a byte of a signature XORed
\* with a mask, a byte of ringSig.a0 of one bit proof XORed with a mask
Tampers ==
    {[kind |-> k, idx |-> 0, mask |-> 0] : k \in {"XA", "XB"}}
        \cup {[kind |-> k, idx |-> i, mask |-> m] :
                  k \in {"sigA", "sigB"}, i \in 1..(PointLenB + ScalarLen),
                  m \in 1..MaxMask}
        \cup {[kind |-> "a0", idx |-> i, mask |-> m] :
                  i \in 1..NewProofBits, m \in 1..MaxMask}

\* the blinder of one commitment of a proof in memory replaced by another
\* scalar: the blinder plus the mask
Reblinds ==
    {[kind |-> k, idx |-> i, mask |-> m] :
        k \in {"rA", "rB"}, i \in 1..NewProofBits, m \in 1..MaxMask}

\* the proof p with the alteration t made
TamperOne(p, t) ==
    IF t.kind = "rA"
        THEN [p EXCEPT !.proofs[t.idx].commitmentA.blinder =
                  ScalarAdd("A", @, ScalarFromInt("A", t.mask))]
    ELSE IF t.kind = "rB"
        THEN [p EXCEPT !.proofs[t.idx].commitmentB.blinder =
                  ScalarAdd("B", @, ScalarFromInt("B", t.mask))]
    ELSE IF t.kind = "XA"
        THEN [p EXCEPT !.CommitmentA = PointAdd("A", @, BasePoint("A"))]
    ELSE IF t.kind = "XB"
        THEN [p EXCEPT !.CommitmentB = PointAdd("B", @, BasePoint("B"))]
    ELSE IF t.kind = "sigA"
        THEN [p EXCEPT !.signatureA = XorAt(@, t.idx, t.mask)]
    ELSE IF t.kind = "sigB"
        THEN [p EXCEPT !.signatureB = XorAt(@, t.idx, t.mask)]
    ELSE [p EXCEPT !.proofs[t.idx].ringSig.a0 =
              DecodeToScalar("A", XorAt(ScalarEncode("A", @), 1, t.mask)).val]

\* the proof p with the alterations ts made in order
RECURSIVE TamperAll(_, _)
TamperAll(p, ts) ==
    IF ts = <<>> THEN p
    ELSE TamperOne(TamperAll(p, SubSeq(ts, 1, Len(ts) - 1)), ts[Len(ts)])

Init ==
    /\ pc = "input"
    /\ x \in ProofWitnesses
    /\ bits = NewProofBits
    /\ sizeRes = "none"
    /\ curve = "A"
    /\ commitments = <<>>
    /\ commitRes = "none"
    /\ sumRes = "none"
    /\ NoProtocol
    /\ NoUnits

\* proof, err := NewProof(curveA, curveB, x)
CallNewProof ==
    /\ pc = "input"
    /\ \E rnd \in Draws :
        \E r \in {NewProof(x, rnd)} :
            \* ecdsa draws again until the signature has s # 0
            /\ r.res = "nil" => r.proof.signatureA # <<>>
            /\ proofRes' = r.res
            /\ proof' = r.proof
    /\ pc' = "proved"
    /\ UNCHANGED helperVars
    /\ UNCHANGED <<verifyRes, ser, origin, deser, deserRes, deserVerifyRes>>
    /\ UNCHANGED <<rngFailAt, tamperVars, unitVars>>

\* proof, err := NewProof(curveA, curveB, x) on a witness that fits, while
\* one read of the random source returns an error
CallNewProofRngFailure ==
    /\ pc = "input"
    /\ checkWitnessSize(x, NewProofBits) = "nil"
    /\ \E seed \in 0..MaxSeed, d \in 1..NumDraws :
        \E r \in {NewProof(x, DrawsFailingAt(seed, d))} :
            /\ rngFailAt' = d
            /\ proofRes' = r.res
            /\ proof' = r.proof
    /\ pc' = "proved"
    /\ UNCHANGED helperVars
    /\ UNCHANGED <<verifyRes, ser, origin, deser, deserRes, deserVerifyRes>>
    /\ UNCHANGED <<tamperVars, unitVars>>

\* err = proof.Verify(curveA, curveB)
CallVerify ==
    /\ pc = "proved"
    /\ proofRes = "nil"
    /\ verifyRes' = ProofVerify(proof)
    /\ pc' = "verified"
    /\ UNCHANGED helperVars
    /\ UNCHANGED <<proof, proofRes, ser, origin, deser, deserRes, deserVerifyRes>>
    /\ UNCHANGED <<rngFailAt, tamperVars, unitVars>>

\* b := proof.Serialize()
CallSerialize ==
    /\ pc = "verified"
    /\ ser' = Serialize(proof)
    /\ origin' = "Serialize"
    /\ pc' = "serialized"
    /\ UNCHANGED helperVars
    /\ UNCHANGED <<proof, proofRes, verifyRes, deser, deserRes, deserVerifyRes>>
    /\ UNCHANGED <<rngFailAt, tamperVars, unitVars>>

\* the prover writes the bytes of its proof with one more bit proof
SerializeExtended ==
    /\ pc = "verified"
    /\ \E k \in 1..MaxExtra, nonce \in 1..(OrderA - 1) :
        \E q \in {Extended(proof, x, k, nonce)} :
            /\ q.signatureA # <<>>
            /\ \A m \in 1..(nonce - 1) : Extended(proof, x, k, m).signatureA = <<>>
            /\ ser' = Serialize(q)
    /\ origin' = "extended"
    /\ pc' = "serialized"
    /\ UNCHANGED helperVars
    /\ UNCHANGED <<proof, proofRes, verifyRes, deser, deserRes, deserVerifyRes>>
    /\ UNCHANGED <<rngFailAt, tamperVars, unitVars>>

\* the offsets of the three length bytes in the bytes of the proof p
\* (counted from 1): the number of bit proofs, the lengths of the signatures
LengthOffsets(p) ==
    LET offN == PointLenA + PointLenB + 1
        offA == offN + Len(p.proofs) * BitProofLen + 1
    IN  <<offN, offA, offA + Len(p.signatureA) + 1>>

\* the bytes of the proof cut short: a strict prefix of what Serialize wrote
SerializeTruncated ==
    /\ pc = "verified"
    /\ \E n \in 0..(Len(Serialize(proof)) - 1) : ser' = Take(Serialize(proof), n)
    /\ origin' = "truncated"
    /\ pc' = "serialized"
    /\ UNCHANGED helperVars
    /\ UNCHANGED <<proof, proofRes, verifyRes, deser, deserRes, deserVerifyRes>>
    /\ UNCHANGED <<rngFailAt, tamperVars, unitVars>>

\* the bytes of the proof with one of the three length bytes raised
SerializeOverlong ==
    /\ pc = "verified"
    /\ \E f \in 1..3, k \in 1..MaxExtra :
        ser' = [Serialize(proof) EXCEPT ![LengthOffsets(proof)[f]] = (@ + k) % 256]
    /\ origin' = "overlong"
    /\ pc' = "serialized"
    /\ UNCHANGED helperVars
    /\ UNCHANGED <<proof, proofRes, verifyRes, deser, deserRes, deserVerifyRes>>
    /\ UNCHANGED <<rngFailAt, tamperVars, unitVars>>

\* the curve of the scalar field f (1..6) of an encoded bit proof: eCurveA,
\* eCurveB, a0, a1, b0, b1
ScalarFieldCurve(f) == IF f \in {1, 3, 4} THEN "A" ELSE "B"

\* the offset of the scalar field f of the bit proof i in the bytes of a
\* proof (both counted from 1)
ScalarFieldOffset(i, f) ==
    PointLenA + PointLenB + 1 + (i - 1) * BitProofLen
        + PointLenA + PointLenB + (f - 1) * ScalarLen + 1

\* the bytes of the proof with one ring scalar written as an integer that is
\* not below the order of its group: the scalar plus the order, or all ones
SerializeNonCanonical ==
    /\ pc = "verified"
    /\ \E i \in 1..Len(proof.proofs), f \in 1..6, ones \in BOOLEAN :
        ser' = [Serialize(proof) EXCEPT ![ScalarFieldOffset(i, f)] =
                    IF ones THEN 255 ELSE @ + Order(ScalarFieldCurve(f))]
    /\ origin' = "noncanonical"
    /\ pc' = "serialized"
    /\ UNCHANGED helperVars
    /\ UNCHANGED <<proof, proofRes, verifyRes, deser, deserRes, deserVerifyRes>>
    /\ UNCHANGED <<rngFailAt, tamperVars, unitVars>>

\* the bytes of the proof with only its first n bit proofs, n below the
\* number NewProof made
SerializeShortened ==
    /\ pc = "verified"
    /\ \E n \in 0..(Len(proof.proofs) - 1) :
        ser' = Serialize([proof EXCEPT !.proofs = Take(@, n)])
    /\ origin' = "shortened"
    /\ pc' = "serialized"
    /\ UNCHANGED helperVars
    /\ UNCHANGED <<proof, proofRes, verifyRes, deser, deserRes, deserVerifyRes>>
    /\ UNCHANGED <<rngFailAt, tamperVars, unitVars>>

\* the bytes of the proof followed by more bytes
SerializeTrailing ==
    /\ pc = "verified"
    /\ \E k \in 1..MaxExtra, v \in 0..MaxTrailingByte :
        ser' = Serialize(proof) \o [i \in 1..k |-> v]
    /\ origin' = "trailing"
    /\ pc' = "serialized"
    /\ UNCHANGED helperVars
    /\ UNCHANGED <<proof, proofRes, verifyRes, deser, deserRes, deserVerifyRes>>
    /\ UNCHANGED <<rngFailAt, tamperVars, unitVars>>

\* res := new(Proof); err = res.Deserialize(curveA, curveB, b)
CallDeserialize ==
    /\ pc = "serialized"
    /\ \E r \in {Deserialize(NoProof, ser)} :
        /\ deserRes' = r.err
        /\ deser' = r.p
    /\ pc' = "deserialized"
    /\ UNCHANGED helperVars
    /\ UNCHANGED <<proof, proofRes, verifyRes, ser, origin, deserVerifyRes>>
    /\ UNCHANGED <<rngFailAt, tamperVars, unitVars>>

\* err = res.Verify(curveA, curveB)
CallVerifyDeserialized ==
    /\ pc = "deserialized"
    /\ deserRes = "nil"
    /\ deserVerifyRes' = ProofVerify(deser)
    /\ pc' = "reverified"
    /\ UNCHANGED helperVars
    /\ UNCHANGED <<proof, proofRes, verifyRes, ser, origin, deser, deserRes>>
    /\ UNCHANGED <<rngFailAt, tamperVars, unitVars>>

\* a slip: the signature is the slice reader.Next returned, which shares
\* the bytes of the caller's buffer from the offset off on
StoreSignatureAliasing(bytes, off) == [own |-> FALSE, bytes |-> bytes, off |-> off]

\* p.signatureA.inner = make([]byte, sigLen[0]); copy(p.signatureA.inner,
\* reader.Next(...)): the signature holds a copy of the bytes read at off
StoreSignature(bytes, off) == [own |-> TRUE, bytes |-> bytes, off |-> off]

\* the bytes of a stored signature once the caller's buffer holds buf
LoadSignature(cell, buf) ==
    IF cell.own THEN cell.bytes
    ELSE [i \in 1..Len(cell.bytes) |-> buf[cell.off + i]]

\* the proof p, which Deserialize read from a buffer, once the buffer holds
\* buf: its points and scalars are values the group decoders computed from a
\* copy of the bytes, its signatures are read from where they are stored
ProofInMemory(p, buf) ==
    LET offs == LengthOffsets(p)
    IN  [p EXCEPT !.signatureA = LoadSignature(StoreSignature(@, offs[2]), buf),
                  !.signatureB = LoadSignature(StoreSignature(@, offs[3]), buf)]

\* the caller overwrites one byte of the buffer it handed to Deserialize,
\* which held what Serialize wrote
OverwriteInput ==
    /\ pc = "reverified"
    /\ origin = "Serialize"
    /\ \E k \in 1..Len(ser), m \in 1..MaxMask :
        /\ inBuf' = XorAt(ser, k, m)
        /\ deser' = ProofInMemory(deser, inBuf')
    /\ pc' = "overwritten"
    /\ UNCHANGED helperVars
    /\ UNCHANGED <<proof, proofRes, verifyRes, ser, origin, deserRes, deserVerifyRes>>
    /\ UNCHANGED <<rngFailAt, tamperVars, hashIn, hashRes, ringBit, ringCmA,
                   ringCmB, ringOut, fromBytes, signVars>>

\* the proof is altered in memory: nothing, one alteration, or two
\* alterations with the least mask
Tamper ==
    /\ pc = "verified"
    /\ \E ts \in {<<>>} \cup {<<t>> : t \in Tampers \cup Reblinds}
                  \cup {<<t1, t2>> : t1 \in {t \in Tampers : t.mask <= 1},
                            t2 \in {t \in Tampers : t.kind # "XA" /\ t.mask <= 1}} :
        /\ Len(ts) = 2 => ts[1].kind # ts[2].kind
        /\ tamperKind' = ts
        /\ tampered' = TamperAll(proof, ts)
    /\ pc' = "tampered"
    /\ UNCHANGED helperVars
    /\ UNCHANGED protoVars
    /\ UNCHANGED <<rngFailAt, tamperRes, tamperRes2, unitVars>>

\* err = tampered.Verify(curveA, curveB)
CallVerifyTampered ==
    /\ pc = "tampered"
    /\ tamperRes' = ProofVerify(tampered)
    /\ tampered' = ProofVerifyEffect(tampered)
    /\ pc' = "tamperverified"
    /\ UNCHANGED helperVars
    /\ UNCHANGED protoVars
    /\ UNCHANGED <<rngFailAt, tamperKind, tamperRes2, unitVars>>

\* err = tampered.Verify(curveA, curveB), once more
CallVerifyTamperedAgain ==
    /\ pc = "tamperverified"
    /\ tamperRes2' = ProofVerify(tampered)
    /\ tampered' = ProofVerifyEffect(tampered)
    /\ pc' = "tamperreverified"
    /\ UNCHANGED helperVars
    /\ UNCHANGED protoVars
    /\ UNCHANGED <<rngFailAt, tamperKind, tamperRes, unitVars>>

Next ==
    \/ CallNewProof
    \/ CallNewProofRngFailure
    \/ CallVerify
    \/ CallSerialize
    \/ SerializeExtended
    \/ CallDeserialize
    \/ CallVerifyDeserialized
    \/ SerializeTruncated
    \/ SerializeOverlong
    \/ SerializeNonCanonical
    \/ Tamper
    \/ CallVerifyTampered
    \/ CallVerifyTamperedAgain
    \/ SerializeShortened
    \/ SerializeTrailing
    \/ OverwriteInput

Spec == Init /\ [][Next]_vars

(***************************************************************************)
(* Claims about the proof                                                  *)
(***************************************************************************)
\* C1: completeness: for every witness x that passes
\* checkWitnessSize(x, min(n_A, n_B)), every proof that NewProof returns makes
\* Verify return nil, whatever the blinders, nonces and simulated responses
\* drawn while proving.
C1_Completeness ==
    (pc \notin {"input", "proved"} /\ checkWitnessSize(x, NewProofBits) = "nil")
        => verifyRes = "nil"

\* Verify has accepted the proof of the witness 0b01, which has a set and a
\* clear bit
C1_Witness ==
    /\ pc = "verified"
    /\ x = WitnessOfByte(1)
    /\ proofRes = "nil"
    /\ Len(proof.proofs) = NewProofBits
    /\ verifyRes = "nil"

\* C3: whenever Verify returns nil, the proof carries exactly min(n_A, n_B)
\* bit proofs and every bit proof it carries has passed the ring check: the
\* recomputed challenges equal the stored (eCurveA, eCurveB).
C3_EveryBitProofChecked ==
    /\ (pc \notin {"input", "proved"} /\ verifyRes = "nil") =>
          /\ Len(proof.proofs) = min(BitSize("A"), BitSize("B"))
          /\ \A i \in 1..Len(proof.proofs) : RingCloses(proof.proofs[i])
    /\ (pc = "reverified" /\ deserVerifyRes = "nil") =>
          /\ Len(deser.proofs) = min(BitSize("A"), BitSize("B"))
          /\ \A i \in 1..Len(deser.proofs) : RingCloses(deser.proofs[i])

\* the parts of a proof that Serialize writes are equal in p and q
SameProof(p, q) ==
    /\ p.CommitmentA = q.CommitmentA
    /\ p.CommitmentB = q.CommitmentB
    /\ Len(p.proofs) = Len(q.proofs)
    /\ \A i \in 1..Len(p.proofs) :
          /\ p.proofs[i].commitmentA.commitment = q.proofs[i].commitmentA.commitment
          /\ p.proofs[i].commitmentB.commitment = q.proofs[i].commitmentB.commitment
          /\ p.proofs[i].ringSig = q.proofs[i].ringSig
    /\ p.signatureA = q.signatureA
    /\ p.signatureB = q.signatureB

\* C4: serialization round trip: for every proof p that NewProof returns,
\* Deserialize of p.Serialize() returns no error and yields a proof with equal
\* X_A and X_B, as many bit proofs, equal commitments and ring scalars at every
\* index and equal signature bytes, and Verify on it returns nil.
C4_RoundTrip ==
    /\ (pc \in {"deserialized", "reverified"} /\ origin = "Serialize") =>
          /\ deserRes = "nil"
          /\ SameProof(deser, proof)
    /\ (pc = "reverified" /\ origin = "Serialize") => deserVerifyRes = "nil"

\* C6: NewProof returns the witness-too-large error, and no proof, if and only
\* if checkWitnessSize(x, min(n_A, n_B)) returns an error; the gate runs before
\* any scalar conversion, commitment or signature, so no panic of theirs takes
\* its place.
C6_WitnessSizeGate ==
    pc = "proved" =>
        /\ (proofRes = "secret must be under bits")
              <=> (checkWitnessSize(x, min(BitSize("A"), BitSize("B"))) # "nil")
        /\ proofRes = "secret must be under bits" => proof = NoProof

\* NewProof has turned down a witness that ScalarFromBytes of curve B cannot
\* take, with the error of the gate
C6_Witness ==
    /\ pc = "proved"
    /\ x = WitnessOfByte(6)
    /\ checkWitnessSize(x, min(BitSize("A"), BitSize("B"))) = "err"
    /\ ScalarFromBytesB(x) = -1
    /\ proofRes = "secret must be under bits"
    /\ proof = NoProof

\* C19: every proof NewProof(curveA, curveB, x) returns has CommitmentA =
\* x*G_A and CommitmentB = x*G_B, exactly min(n_A, n_B) bit proofs, where bit
\* proof i carries the commitments b_i*G + r_i*H to bit i of x on both
\* groups, and a curve-B signature of exactly one point and one scalar
\* (64 bytes on Ed25519).
C19_ProofShape ==
    (pc \notin {"input"} /\ proofRes = "nil") =>
        /\ proof.CommitmentA = WitnessPoint("A", x)
        /\ proof.CommitmentB = WitnessPoint("B", x)
        /\ Len(proof.proofs) = min(BitSize("A"), BitSize("B"))
        /\ \A i \in 1..Len(proof.proofs) :
              /\ proof.proofs[i].commitmentA.commitment =
                    (getBit(x, i - 1) * BasePoint("A")
                        + proof.proofs[i].commitmentA.blinder * AltBasePoint("A")) % OrderA
              /\ proof.proofs[i].commitmentB.commitment =
                    (getBit(x, i - 1) * BasePoint("B")
                        + proof.proofs[i].commitmentB.blinder * AltBasePoint("B")) % OrderB
        /\ Len(proof.signatureB) = PointLenB + ScalarLen

\* NewProof has returned a proof of the witness 0b10
C19_Witness ==
    /\ pc = "proved"
    /\ x = WitnessOfByte(2)
    /\ proofRes = "nil"
    /\ Len(proof.proofs) = BitSize("B")
    /\ proof.CommitmentB = 2

\* C17: if the random source fails during a random draw made by NewProof
\* (blinders, ring nonces, simulated responses, the nonce of the signature),
\* the call returns an error to the caller: it neither aborts the process
\* nor returns a proof.
C17_RngFailurePropagated ==
    (pc = "proved" /\ rngFailAt > 0) =>
        /\ proofRes # RandReadPanic
        /\ proofRes # "nil"
        /\ proof = NoProof

(***************************************************************************)
(* Claims about Verify on altered proofs                                   *)
(***************************************************************************)
\* the commitments of the bit proofs of p on the curve c
CommitmentsOf(c, p) ==
    [i \in 1..Len(p.proofs) |->
        IF c = "A" THEN p.proofs[i].commitmentA ELSE p.proofs[i].commitmentB]

\* the bit proofs of p, among those Verify reads, whose ring does not close
OpenRings(p) == {i \in 1..min(BitSize("A"), BitSize("B")) : ~RingCloses(p.proofs[i])}

\* the error of the first check p fails, in the order: sum on A, sum on B,
\* signature on A, signature on B, rings
FirstFailedCheck(p) ==
    IF WeightedSum("A", CommitmentsOf("A", p)) # p.CommitmentA
        THEN "failed to verify commitment on curve A"
    ELSE IF WeightedSum("B", CommitmentsOf("B", p)) # p.CommitmentB
        THEN "failed to verify commitment on curve B"
    ELSE IF ~VerifyA(p.CommitmentA, p.CommitmentA, p.signatureA)
        THEN "failed to verify signature on commitment A"
    ELSE IF VerifyB(p.CommitmentB, p.CommitmentB, p.signatureB) # "true"
        THEN "failed to verify signature on commitment B"
    ELSE IF OpenRings(p) # {} THEN "invalid proof"
    ELSE "nil"

\* C11: when several checks would fail on the same proof, Verify returns the
\* error of the first failing check in the order commitment sum on A,
\* commitment sum on B, signature A, signature B, rings; so a valid proof
\* whose X_A is replaced by (x+1)*G_A is rejected with the curve-A
\* commitment-sum error, and a valid proof with one byte of sigma_B altered
\* is rejected with the curve-B signature error.
C11_FixedCheckOrder ==
    pc \in {"tamperverified", "tamperreverified"} =>
        /\ tamperRes = FirstFailedCheck(tampered)
        /\ (Len(tamperKind) = 1 /\ tamperKind[1].kind = "XA")
              => tamperRes = "failed to verify commitment on curve A"
        /\ (Len(tamperKind) = 1 /\ tamperKind[1].kind = "sigB")
              => tamperRes = "failed to verify signature on commitment B"

\* Verify has turned down a proof with X_A moved and a byte of sigma_B
\* altered: three checks fail on it, and the error is that of the sum on A
C11_Witness ==
    /\ pc = "tamperverified"
    /\ Len(tamperKind) = 2
    /\ tamperKind[1].kind = "XA"
    /\ tamperKind[2].kind = "sigB"
    /\ ~VerifyA(tampered.CommitmentA, tampered.CommitmentA, tampered.signatureA)
    /\ VerifyB(tampered.CommitmentB, tampered.CommitmentB, tampered.signatureB) = "false"
    /\ tamperRes = "failed to verify commitment on curve A"

\* the lowest index in the set S of indices
Lowest(S) == CHOOSE i \in S : \A k \in S : i <= k

\* Verify turns p down at the ring check of the bit proof i (counted from 1)
RingFailsFirstAt(p, i) ==
    /\ FirstFailedCheck(p) = "invalid proof"
    /\ Lowest(OpenRings(p)) = i

\* C12: when Verify rejects because the ring check of bit index i is the
\* first check to fail (a valid proof with one byte of ringSig.a0 of bit
\* proof i altered), the returned error identifies i: it differs from the
\* error returned when the ring check of another bit index is the first to
\* fail.
C12_RingFailureNamesBit ==
    (/\ pc \in {"tamperverified", "tamperreverified"}
     /\ Len(tamperKind) = 1
     /\ tamperKind[1].kind = "a0"
     /\ RingFailsFirstAt(tampered, tamperKind[1].idx))
        => \A t \in {u \in Tampers : u.kind = "a0" /\ u.idx # tamperKind[1].idx} :
              RingFailsFirstAt(TamperOne(proof, t), t.idx)
                  => ProofVerify(TamperOne(proof, t)) # tamperRes

ShorterThanImplied(in) ==
    LET offN == PointLenA + PointLenB + 1
        offA == offN + in[offN] * BitProofLen + 1
        offB == offA + in[offA] + 1
    IN  \/ Len(in) < offN
        \/ Len(in) < offA
        \/ Len(in) < offB
        \/ Len(in) < offB + in[offB]

\* the errors Deserialize returns
DeserializeErrors == {"input bytes too short", "invalid point", "invalid encoding"}

\* C13: for every byte string shorter than the length implied by its own
\* nbits, siglenA and siglenB fields (every strict prefix of a Serialize
\* output, the empty string included), Deserialize returns an error and does
\* not panic.
C13_TruncatedIsError ==
    /\ (pc \in {"serialized", "deserialized", "reverified"} /\ origin = "truncated")
          => ShorterThanImplied(ser)
    /\ (pc \in {"deserialized", "reverified"} /\ ShorterThanImplied(ser))
          => deserRes \in DeserializeErrors

\* Deserialize has turned down the bytes of the proof of the witness 1 with
\* the last byte of sigma_B cut off
C13_Witness ==
    /\ pc = "deserialized"
    /\ origin = "truncated"
    /\ x = WitnessOfByte(1)
    /\ Len(ser) = Len(Serialize(proof)) - 1
    /\ ShorterThanImplied(ser)
    /\ deserRes = "input bytes too short"

\* the bytes of in from the offset off (counted from 0), n of them
Slice(in, off, n) == SubSeq(in, off + 1, off + n)

\* the six ring scalars of a bit proof in the order of the wire, with the
\* curve of each
WireScalars(bp) ==
    <<<<"A", bp.ringSig.eCurveA>>, <<"B", bp.ringSig.eCurveB>>,
      <<"A", bp.ringSig.a0>>, <<"A", bp.ringSig.a1>>,
      <<"B", bp.ringSig.b0>>, <<"B", bp.ringSig.b1>>>>

\* the byte string in holds the proof p in the layout
\*   encode(X_A) || encode(X_B) || byte(n) || n bit proofs
\*     || byte(len(sigma_A)) || sigma_A || byte(len(sigma_B)) || sigma_B
\* where bit proof i is encode(C_A) || encode(C_B) || eCurveA || eCurveB
\*   || a0 || a1 || b0 || b1, each scalar ScalarLen bytes
HasWireLayout(in, p) ==
    LET n == Len(p.proofs)
        head == PointLenA + PointLenB + 1
        one == PointLenA + PointLenB + 6 * ScalarLen
        sigs == head + n * one
    IN  /\ Len(in) = head + n * one + 2 + Len(p.signatureA) + Len(p.signatureB)
        /\ Slice(in, 0, PointLenA) = PointEncodeA(p.CommitmentA)
        /\ Slice(in, PointLenA, PointLenB) = PointEncodeB(p.CommitmentB)
        /\ in[head] = n
        /\ \A i \in 1..n :
              LET at == head + (i - 1) * one
              IN  /\ Slice(in, at, PointLenA)
                        = PointEncodeA(p.proofs[i].commitmentA.commitment)
                  /\ Slice(in, at + PointLenA, PointLenB)
                        = PointEncodeB(p.proofs[i].commitmentB.commitment)
                  /\ \A f \in 1..6 :
                        /\ Len(ScalarEncode(WireScalars(p.proofs[i])[f][1],
                                            WireScalars(p.proofs[i])[f][2])) = ScalarLen
                        /\ Slice(in, at + PointLenA + PointLenB + (f - 1) * ScalarLen,
                                 ScalarLen)
                              = ScalarEncode(WireScalars(p.proofs[i])[f][1],
                                             WireScalars(p.proofs[i])[f][2])
        /\ in[sigs + 1] = Len(p.signatureA)
        /\ Slice(in, sigs + 1, Len(p.signatureA)) = p.signatureA
        /\ in[sigs + 1 + Len(p.signatureA) + 1] = Len(p.signatureB)
        /\ Slice(in, sigs + 2 + Len(p.signatureA), Len(p.signatureB)) = p.signatureB

\* C15: Serialize(p) is exactly encode(X_A) || encode(X_B) || byte(n) || the n
\* bit proofs in index order, each encode(C_A) || encode(C_B) || eCurveA ||
\* eCurveB || a0 || a1 || b0 || b1 with scalars of the fixed length ||
\* byte(len(sigma_A)) || sigma_A || byte(len(sigma_B)) || sigma_B, so its
\* length is ptlen_A + ptlen_B + 1 + n*(ptlen_A + ptlen_B + 6 scalars) + 2
\* + len(sigma_A) + len(sigma_B); for the witness x = 1 it begins
\* encode(G_A) || encode(G_B) || byte(min(n_A, n_B)).
C15_WireLayout ==
    (pc \in {"serialized", "deserialized", "reverified"} /\ origin = "Serialize") =>
        /\ HasWireLayout(ser, proof)
        /\ x = WitnessOfByte(1) =>
              Slice(ser, 0, PointLenA + PointLenB + 1) =
                  PointEncodeA(BasePoint("A")) \o PointEncodeB(BasePoint("B"))
                      \o <<min(BitSize("A"), BitSize("B"))>>

\* Serialize has written the proof of the witness 1
C15_Witness ==
    /\ pc = "serialized"
    /\ origin = "Serialize"
    /\ x = WitnessOfByte(1)
    /\ proofRes = "nil"
    /\ Len(ser) > PointLenA + PointLenB + 1
    /\ ser[PointLenA + PointLenB + 1] = BitSize("B")

\* a ring-scalar field of a bit proof of the byte string in holds an integer
\* that is not below the order of its group
HasInvalidScalar(in) ==
    LET offN == PointLenA + PointLenB + 1
    IN  /\ Len(in) >= offN
        /\ \E i \in 1..in[offN], f \in 1..6 :
              /\ Len(in) >= ScalarFieldOffset(i, f) + ScalarLen - 1
              /\ BEValue(SubSeq(in, ScalarFieldOffset(i, f),
                                ScalarFieldOffset(i, f) + ScalarLen - 1))
                     >= Order(ScalarFieldCurve(f))

\* C14: Deserialize returns an error whenever any of the six ring-scalar
\* fields (eCurveA, eCurveB, a0, a1, b0, b1) of any bit proof is not a valid
\* encoding of a scalar of its group: its encoded integer is not below the
\* group order.
C14_InvalidScalarRejected ==
    /\ (pc \in {"serialized", "deserialized", "reverified"} /\ origin = "noncanonical")
          => HasInvalidScalar(ser)
    /\ (pc \in {"deserialized", "reverified"} /\ HasInvalidScalar(ser))
          => deserRes \in DeserializeErrors

OnlyBlinderChanged(ts) == Len(ts) = 1 /\ ts[1].kind \in {"rA", "rB"}

\* C26: the output of Serialize and the result of Verify do not depend on
\* the blinder fields of the proof's commitments: two proofs that differ in
\* blinder values only serialize to the same bytes and verify alike; and a
\* proof that Deserialize produced carries no blinder.
C26_BlindersStayWithProver ==
    /\ (pc \in {"tampered", "tamperverified", "tamperreverified"}
            /\ OnlyBlinderChanged(tamperKind)) =>
          /\ tampered # proof
          /\ Serialize(tampered) = Serialize(proof)
          /\ pc # "tampered" => tamperRes = verifyRes
    /\ pc \in {"deserialized", "reverified", "overwritten"} =>
          \A i \in 1..Len(deser.proofs) :
              /\ deser.proofs[i].commitmentA.blinder = NilScalar
              /\ deser.proofs[i].commitmentB.blinder = NilScalar

\* Verify has accepted a proof whose blinder on curve B was replaced
C26_Witness ==
    /\ pc = "tamperverified"
    /\ OnlyBlinderChanged(tamperKind)
    /\ tamperKind[1].kind = "rB"
    /\ tamperRes = "nil"

\* the errors Proof.Verify returns
VerifyErrors ==
    {"failed to verify commitment on curve A", "failed to verify commitment on curve B",
     "failed to verify signature on commitment A",
     "failed to verify signature on commitment B", "invalid proof"}

\* C27: for every proof that Deserialize accepts and that carries fewer
\* than min(n_A, n_B) bit proofs, none included, Verify returns an error
\* and does not abort.
C27_ShortProofFailsClosed ==
    (pc = "reverified" /\ Len(deser.proofs) < min(BitSize("A"), BitSize("B")))
        => deserVerifyRes \in VerifyErrors

\* C29: whenever Deserialize returns an error, every field of the receiver
\* (CommitmentA, CommitmentB, the bit proofs, both signatures) has the value
\* it had before the call.
C29_DeserializeAllOrNothing ==
    (pc = "deserialized" /\ deserRes # "nil") => deser = NoProof

\* C30: for every byte string b on which Deserialize returns nil, Serialize
\* of the proof read returns exactly b: no trailing bytes are accepted and
\* no two byte strings decode to the same proof.
C30_WireEncodingCanonical ==
    (pc = "deserialized" /\ deserRes = "nil") => Serialize(deser) = ser

(***************************************************************************)
(* Claims about the witness helpers                                        *)
(***************************************************************************)
\* C7: for every bits in 1..255 and every 32-byte x with a bit set at a
\* little-endian index >= bits, checkWitnessSize(x, bits) returns an error.
C7_OversizeRejected ==
    (pc = "checked" /\ ~Fits(x, bits)) => sizeRes = "err"

\* C8: for every bits in 1..255 and every 32-byte x whose bits at index
\* >= bits are all zero, checkWitnessSize(x, bits) returns nil.
C8_FittingAccepted ==
    (pc = "checked" /\ Fits(x, bits)) => sizeRes = "nil"

\* the edge-case witness of TestWitnessSize: x[30] = 0b00010101 fits 245 bits
C8_Witness ==
    /\ pc = "checked"
    /\ x = [ZeroBytes EXCEPT ![30] = 21]
    /\ bits = 245
    /\ Fits(x, bits)
    /\ sizeRes = "nil"

\* bit i of the integer v, for v below 2^ByteBits
IntegerBit(v, i) == IF i >= ByteBits THEN 0 ELSE BitOf(v, i)

\* C23: for every x that passes checkWitnessSize(x, n) with n the bit size
\* of ed25519 (252 in the code, BitSizeB here), ScalarFromBytes on secp256k1
\* and on ed25519 both return, without reduction by the order and without
\* abort, the integer whose bit i is getBit(x, i) for every i in 0..255.
C23_SameIntegerOnBothGroups ==
    (pc = "converted" /\ bits = BitSizeB) =>
        /\ fromBytes.res = "ok"
        /\ \A i \in 0..(WitnessBits - 1) :
            /\ IntegerBit(fromBytes.A, i) = getBit(x, i)
            /\ IntegerBit(fromBytes.B, i) = getBit(x, i)

\* ScalarFromBytes has run on the largest witness of BitSizeB bits
C23_Witness ==
    /\ pc = "converted"
    /\ bits = BitSizeB
    /\ x = [ZeroBytes EXCEPT ![0] = Pow2[BitSizeB + 1] - 1]
    /\ fromBytes.res = "ok"

\* C9: for every bits in 1..255 the 32 bytes returned by generateRandomBits(bits)
\* have every bit at index >= bits equal to zero, whatever the random source
\* produced.
C9_GeneratedFits ==
    pc = "generated" => Fits(x, bits)

====
